---- MODULE Spec2Model ----
(***************************************************************************)
(* pgao: the connection registry (db.ConnectionPool), the metrics          *)
(* collector, the cluster-info collector with their Start loops, and the   *)
(* performance analyzer, as state machines.                                *)
(*                                                                         *)
(* A pool handle (a pgxpool.Pool) is a positive integer, fresh for every    *)
(* pgxpool.NewWithConfig; NoPool is the nil handle / a missing map key.    *)
(* The RWMutex cp.mu is the pair (muWriter, muReaders).  A call that needs *)
(* the mutex blocks until it is free: the call and the acquisition are one *)
(* step whose guard is the mutex being available.                          *)
(***************************************************************************)
EXTENDS Integers, Sequences, FiniteSets, TLC

\* ---- bounds ----
NumIds == 2
NumProcs == 2
MaxPools == 2
MaxLoad == 1
MaxFirings == 2

Ids == 1..NumIds
Procs == 1..NumProcs
NoProc == 0
NoPool == 0
Handles == 1..(NumIds * MaxPools)

VARIABLES
  pools,        \* cp.pools: cluster id -> pool handle (NoPool: no entry)
  poolsClosed,  \* handles on which pool.Close() has been called
  nextPool,     \* per id, the number of pools pgxpool.NewWithConfig built for it
  muWriter,     \* holder of cp.mu.Lock(), or NoProc
  muReaders,    \* holders of cp.mu.RLock()
  pc,           \* position of each caller goroutine
  op,           \* the call each caller is executing: [kind, id]
  loc,          \* its local variables: [pool, ids]
  ret,          \* what the step just taken returned to its caller:
                \* [proc, kind, id, err, pool, ids], NoRet when no call returned
  faults,       \* the statistics queries the endpoints may answer with an error
  load,         \* the activity of the endpoints, which their counters reflect
  mc,           \* the goroutine running MetricsCollector code
  cc,           \* the goroutine running ClusterCollector code
  clusters,     \* cc.clusters: cluster id -> models.Cluster (NoCluster: no entry)
  ticks,        \* the collectors whose tick has begun
  start,        \* per collector, the position of its Start goroutine
  ctxDone,      \* the context main handed to the collectors is cancelled
  timer,        \* the collectors whose ticker.C holds a firing
  fired,        \* the number of ticker firings so far
  hung,         \* the cluster ids whose endpoint never answers
  boot,         \* main: the configured clusters, the entry the startup loop is at, the ids logged as failed
  api,          \* the ClusterCollector call of the API goroutine in progress
  pa            \* a call of PerformanceAnalyzer.AnalyzeMetrics:
                \* [pc, thresholds, metrics, alerts]

regVars == <<pools, poolsClosed, nextPool, muWriter, muReaders, pc, op, loc, ret>>
runVars == <<start, ctxDone, timer, fired, hung, boot, pa, api>>
collVars == <<faults, load, mc, cc, clusters, ticks, start, ctxDone, timer, fired, hung, boot, pa, api>>
vars == <<pools, poolsClosed, nextPool, muWriter, muReaders, pc, op, loc, ret,
          faults, load, mc, cc, clusters, ticks,
          start, ctxDone, timer, fired, hung, boot, pa, api>>

\* ---- helpers ----
\* main outside its startup loop: nothing configured is left to connect
NoBoot == [cfg |-> <<>>, k |-> 1, logged |-> {}]

Registered == {id \in Ids : pools[id] # NoPool}

\* all orders in which a map iteration can yield the set S
Perms(S) == {s \in [1..Cardinality(S) -> S] : \A i, j \in 1..Cardinality(S) : s[i] = s[j] => i = j}

NoOp == [kind |-> "none", id |-> 0]
NoLoc == [pool |-> NoPool, ids |-> <<>>]
NoRet == [proc |-> NoProc, kind |-> "none", id |-> 0, err |-> "nil", pool |-> NoPool, ids |-> <<>>]

\* a Lock that forgets the readers inside
LockFreeIgnoringReaders == muWriter = NoProc

\* a Lock that forgets the writer inside
LockFreeIgnoringWriter == muReaders = {}

\* cp.mu.Lock() can be acquired
LockFree == muWriter = NoProc /\ muReaders = {}

\* an existence check that never finds the entry
AddClusterExistsNever(id) == FALSE

\* _, exists := cp.pools[clusterID]
AddClusterExists(id) == pools[id] # NoPool

\* the methods that start with cp.GetPool(clusterID)
GetPoolCallers == {"GetPool", "HealthCheck", "GetPoolStats"}

\* cp.mu.RLock() can be acquired
RLockFree == muWriter = NoProc

\* a caller returns: its frame is dropped and the result recorded
Return(p, kind, id, err, pool, ids) ==
  /\ pc' = [pc EXCEPT ![p] = "idle"]
  /\ op' = [op EXCEPT ![p] = NoOp]
  /\ loc' = [loc EXCEPT ![p] = NoLoc]
  /\ ret' = [proc |-> p, kind |-> kind, id |-> id, err |-> err, pool |-> pool, ids |-> ids]

\* The pool handles: a pool built by pgxpool.NewWithConfig is a fresh pointer.
\* The k-th pool built for id is named (k - 1) * NumIds + id, so that the
\* name does not depend on the order in which different ids were added.
Fresh(id) == nextPool[id] * NumIds + id

\* the handles built so far
Built == {h \in Handles : nextPool[((h - 1) % NumIds) + 1] > (h - 1) \div NumIds}

\* ---- the sizing of a pool: "Configure pool" in AddCluster ----
\* the largest int32
MaxInt32 == 2147483647

\* the conversion int32(x) of an int: the low 32 bits, as a signed number.
\* The integers of the model reach MaxInt32 and no further
int32(x) ==
  IF x > MaxInt32 THEN x - MaxInt32 - MaxInt32 - 2
  ELSE IF x < -MaxInt32 - 1 THEN x + MaxInt32 + MaxInt32 + 2
  ELSE x

\* a sizing in which a set field hides the default of the next one
ConfigureChained(config) ==
  [MaxConns |-> IF config.MaxConnections > 0 THEN int32(config.MaxConnections) ELSE 25,
   MinConns |-> IF config.MinConnections > 0 THEN int32(config.MinConnections)
                ELSE IF config.MaxConnections > 0 THEN 0 ELSE 5,
   MaxConnLifetime |-> IF config.ConnMaxLifetime > 0 THEN config.ConnMaxLifetime ELSE 3600,
   MaxConnIdleTime |-> IF config.ConnMaxIdleTime > 0 THEN config.ConnMaxIdleTime ELSE 1800]

\* the four sizing fields of poolConfig; the durations are in seconds
\* (time.Hour is 3600, 30 * time.Minute is 1800)
Configure(config) ==
  [MaxConns |-> IF config.MaxConnections > 0 THEN int32(config.MaxConnections) ELSE 25,
   MinConns |-> IF config.MinConnections > 0 THEN int32(config.MinConnections) ELSE 5,
   MaxConnLifetime |-> IF config.ConnMaxLifetime > 0 THEN config.ConnMaxLifetime ELSE 3600,
   MaxConnIdleTime |-> IF config.ConnMaxIdleTime > 0 THEN config.ConnMaxIdleTime ELSE 1800]

\* the sizing fields of a ConnectionConfig that sets none of them
UnsetSizing ==
  [MaxConnections |-> 0, MinConnections |-> 0, ConnMaxLifetime |-> 0, ConnMaxIdleTime |-> 0]

\* ---- ConnectionPool.AddCluster ----
\* Lock, the existence check, ParseConfig and NewWithConfig; the mutex stays
\* held for the Ping that follows.
AddClusterWith(p, id, config) ==
  /\ UNCHANGED collVars
  /\ pc[p] = "idle"
  /\ LockFree
  /\ IF AddClusterExists(id) THEN
       /\ Return(p, "AddCluster", id, "AlreadyExists", NoPool, <<>>)
       /\ UNCHANGED <<pools, poolsClosed, nextPool, muWriter, muReaders>>
     ELSE
       \E built \in {"ParseFailed", "CreateFailed", "nil"} :
         IF built # "nil" THEN
           \* pgxpool.ParseConfig or pgxpool.NewWithConfig returned an error
           /\ Return(p, "AddCluster", id, built, NoPool, <<>>)
           /\ UNCHANGED <<pools, poolsClosed, nextPool, muWriter, muReaders>>
         ELSE
           /\ Cardinality(Built) < MaxPools
           /\ muWriter' = p
           /\ nextPool' = [nextPool EXCEPT ![id] = @ + 1]
           /\ pc' = [pc EXCEPT ![p] = "add_ping"]
           /\ op' = [op EXCEPT ![p] = [kind |-> "AddCluster", id |-> id]]
           /\ loc' = [loc EXCEPT ![p] = [pool |-> Fresh(id), ids |-> <<>>,
                                        config |-> config,
                                        poolConfig |-> Configure(config)]]
           /\ ret' = NoRet
           /\ UNCHANGED <<pools, poolsClosed, muReaders>>

\* AddCluster of a cluster whose configuration sets no sizing field
AddClusterBegin(p, id) == AddClusterWith(p, id, UnsetSizing)

\* a failed Ping that registers the pool all the same
AddClusterPingFailedKeepsEntry(p) ==
  /\ poolsClosed' = poolsClosed \cup {loc[p].pool}
  /\ pools' = [pools EXCEPT ![op[p].id] = loc[p].pool]
  /\ Return(p, "AddCluster", op[p].id, "PingFailed", NoPool, <<>>)

\* Ping failed: pool.Close() and the error
AddClusterPingFailed(p) ==
  /\ poolsClosed' = poolsClosed \cup {loc[p].pool}
  /\ Return(p, "AddCluster", op[p].id, "PingFailed", NoPool, <<>>)
  /\ UNCHANGED pools

\* pool.Ping under the mutex, then registration or pool.Close, then Unlock
AddClusterPing(p) ==
  /\ UNCHANGED collVars
  /\ pc[p] = "add_ping"
  /\ \E pingOK \in BOOLEAN :
       IF pingOK THEN
         /\ pools' = [pools EXCEPT ![op[p].id] = loc[p].pool]
         /\ Return(p, "AddCluster", op[p].id, "nil", loc[p].pool, <<>>)
         /\ UNCHANGED poolsClosed
       ELSE
         AddClusterPingFailed(p)
  /\ muWriter' = NoProc
  /\ UNCHANGED <<nextPool, muReaders>>

\* ---- ConnectionPool.GetPool: RLock and the map lookup.  GetPool is also
\* the first statement of HealthCheck and GetPoolStats; which of the three
\* the goroutine runs makes no difference before GetPool returns, so the
\* caller is drawn when it does. ----
GetPoolBegin(p, id) ==
  /\ UNCHANGED collVars
  /\ pc[p] = "idle"
  /\ RLockFree
  /\ muReaders' = muReaders \cup {p}
  /\ pc' = [pc EXCEPT ![p] = "gp_locked"]
  /\ op' = [op EXCEPT ![p] = [kind |-> "GetPool", id |-> id]]
  /\ loc' = [loc EXCEPT ![p] = [pool |-> pools[id], ids |-> <<>>]]
  /\ ret' = NoRet
  /\ UNCHANGED <<pools, poolsClosed, nextPool, muWriter>>

\* RUnlock and the continuation in GetPool's caller
GetPoolEnd(p, kind) ==
  /\ UNCHANGED collVars
  /\ pc[p] = "gp_locked"
  /\ muReaders' = muReaders \ {p}
  /\ IF loc[p].pool = NoPool THEN
       Return(p, kind, op[p].id, "NotFound", NoPool, <<>>)
     ELSE IF kind = "HealthCheck" THEN
       /\ pc' = [pc EXCEPT ![p] = "hc_ping"]
       /\ op' = [op EXCEPT ![p] = [kind |-> "HealthCheck", id |-> op[p].id]]
       /\ ret' = NoRet
       /\ UNCHANGED loc
     ELSE
       \* GetPool hands out the handle, GetPoolStats its pool.Stat()
       Return(p, kind, op[p].id, "nil", loc[p].pool, <<>>)
  /\ UNCHANGED <<pools, poolsClosed, nextPool, muWriter>>

\* a health check that drops the entry of a cluster that does not answer
HealthCheckPingEvicts(p) ==
  /\ UNCHANGED collVars
  /\ pc[p] = "hc_ping"
  /\ \E pingOK \in BOOLEAN :
       /\ pingOK => loc[p].pool \notin poolsClosed
       /\ pools' = IF pingOK THEN pools ELSE [pools EXCEPT ![op[p].id] = NoPool]
       /\ Return(p, "HealthCheck", op[p].id, IF pingOK THEN "nil" ELSE "PingFailed", NoPool, <<>>)
  /\ UNCHANGED <<poolsClosed, nextPool, muWriter, muReaders>>

\* ---- ConnectionPool.HealthCheck: pool.Ping with a 5 s timeout; a closed
\* pool cannot be pinged ----
HealthCheckPing(p) ==
  /\ UNCHANGED collVars
  /\ pc[p] = "hc_ping"
  /\ \E pingOK \in BOOLEAN :
       /\ pingOK => loc[p].pool \notin poolsClosed
       /\ Return(p, "HealthCheck", op[p].id, IF pingOK THEN "nil" ELSE "PingFailed", NoPool, <<>>)
  /\ UNCHANGED <<pools, poolsClosed, nextPool, muWriter, muReaders>>

\* ---- ConnectionPool.GetAllClusters ----
GetAllClustersBegin(p) ==
  /\ UNCHANGED collVars
  /\ pc[p] = "idle"
  /\ RLockFree
  /\ muReaders' = muReaders \cup {p}
  /\ pc' = [pc EXCEPT ![p] = "list_locked"]
  /\ op' = [op EXCEPT ![p] = [kind |-> "GetAllClusters", id |-> 0]]
  /\ \E s \in Perms(Registered) : loc' = [loc EXCEPT ![p] = [pool |-> NoPool, ids |-> s]]
  /\ ret' = NoRet
  /\ UNCHANGED <<pools, poolsClosed, nextPool, muWriter>>

GetAllClustersEnd(p) ==
  /\ UNCHANGED collVars
  /\ pc[p] = "list_locked"
  /\ muReaders' = muReaders \ {p}
  /\ Return(p, "GetAllClusters", 0, "nil", NoPool, loc[p].ids)
  /\ UNCHANGED <<pools, poolsClosed, nextPool, muWriter>>

\* ---- ConnectionPool.RemoveCluster ----
RemoveClusterBegin(p, id) ==
  /\ UNCHANGED collVars
  /\ pc[p] = "idle"
  /\ LockFree
  /\ IF pools[id] = NoPool THEN
       /\ Return(p, "RemoveCluster", id, "NotFound", NoPool, <<>>)
       /\ UNCHANGED muWriter
     ELSE
       /\ muWriter' = p
       /\ pc' = [pc EXCEPT ![p] = "rm_close"]
       /\ op' = [op EXCEPT ![p] = [kind |-> "RemoveCluster", id |-> id]]
       /\ loc' = [loc EXCEPT ![p] = [pool |-> pools[id], ids |-> <<>>]]
       /\ ret' = NoRet
  /\ UNCHANGED <<pools, poolsClosed, nextPool, muReaders>>

\* a removal that closes the pool and keeps the map entry
RemoveClusterEndKeepsEntry(p) ==
  /\ UNCHANGED collVars
  /\ pc[p] = "rm_close"
  /\ poolsClosed' = poolsClosed \cup {loc[p].pool}
  /\ muWriter' = NoProc
  /\ Return(p, "RemoveCluster", op[p].id, "nil", NoPool, <<>>)
  /\ UNCHANGED <<pools, nextPool, muReaders>>

\* pool.Close under the mutex, delete, Unlock
RemoveClusterEnd(p) ==
  /\ UNCHANGED collVars
  /\ pc[p] = "rm_close"
  /\ poolsClosed' = poolsClosed \cup {loc[p].pool}
  /\ pools' = [pools EXCEPT ![op[p].id] = NoPool]
  /\ muWriter' = NoProc
  /\ Return(p, "RemoveCluster", op[p].id, "nil", NoPool, <<>>)
  /\ UNCHANGED <<nextPool, muReaders>>

\* ---- ConnectionPool.Close ----
CloseBegin(p) ==
  /\ UNCHANGED collVars
  /\ pc[p] = "idle"
  /\ LockFree
  /\ muWriter' = p
  /\ pc' = [pc EXCEPT ![p] = "close_all"]
  /\ op' = [op EXCEPT ![p] = [kind |-> "Close", id |-> 0]]
  /\ ret' = NoRet
  /\ UNCHANGED <<pools, poolsClosed, nextPool, muReaders, loc>>

\* a Close that closes the pools and keeps the map
CloseEndKeepsMap(p) ==
  /\ UNCHANGED collVars
  /\ pc[p] = "close_all"
  /\ poolsClosed' = poolsClosed \cup {pools[id] : id \in Registered}
  /\ muWriter' = NoProc
  /\ Return(p, "Close", 0, "nil", NoPool, <<>>)
  /\ UNCHANGED <<pools, nextPool, muReaders>>

\* every pool.Close under the mutex, the map replaced, Unlock
CloseEnd(p) ==
  /\ UNCHANGED collVars
  /\ pc[p] = "close_all"
  /\ poolsClosed' = poolsClosed \cup {pools[id] : id \in Registered}
  /\ pools' = [id \in Ids |-> NoPool]
  /\ muWriter' = NoProc
  /\ Return(p, "Close", 0, "nil", NoPool, <<>>)
  /\ UNCHANGED <<nextPool, muReaders>>

\* ==== MetricsCollector ====

\* the goroutine running MetricsCollector code, as a holder of cp.mu
MC == NumProcs + 1

\* the statistics queries of CollectClusterMetrics, in the order issued
Queries == <<"connection", "cache", "transaction", "lock_waits", "deadlocks",
             "replication", "bloat", "disk_io">>

QueryNames == {Queries[i] : i \in 1..Len(Queries)}

\* the seven sub-collections, in the order called
SubCollections == <<"connection", "cache", "transaction", "lock",
                    "replication", "bloat", "disk_io">>

\* the sub-collection that issues a query: collectLockMetrics issues two
SubOf(q) == IF q \in {"lock_waits", "deadlocks"} THEN "lock" ELSE q

\* a snapshot that starts with a sampled CPU usage
NewMetricsBusy(id) ==
  [ClusterID |-> id, ConnectionsActive |-> 0, ConnectionsTotal |-> 0,
   TransactionsPerSec |-> 0, CacheHitRatio |-> 0, DiskIORead |-> 0,
   DiskIOWrite |-> 0, CPUUsage |-> 96, MemoryUsage |-> 0, LockWaits |-> 0,
   DeadlockCount |-> 0, ReplicationLag |-> 0, TableBloat |-> 0]

\* models.NewMetrics: every numeric field at its zero value
NewMetrics(id) ==
  [ClusterID |-> id, ConnectionsActive |-> 0, ConnectionsTotal |-> 0,
   TransactionsPerSec |-> 0, CacheHitRatio |-> 0, DiskIORead |-> 0,
   DiskIOWrite |-> 0, CPUUsage |-> 0, MemoryUsage |-> 0, LockWaits |-> 0,
   DeadlockCount |-> 0, ReplicationLag |-> 0, TableBloat |-> 0]

NoMetrics == NewMetrics(0)

\* the row an endpoint under the current load answers to a query (the
\* transaction counter in multiples of 60, so that the division is exact)
Row(q) ==
  CASE q = "connection" -> <<load, 100>>
    [] q = "cache" -> <<90 + load>>
    [] q = "transaction" -> <<60 * load>>
    [] q = "lock_waits" -> <<3 * load>>
    [] q = "deadlocks" -> <<load>>
    [] q = "replication" -> <<1000 * load>>
    [] q = "bloat" -> <<2 * load>>
    [] q = "disk_io" -> <<load, 5 * load>>

\* the assignments a sub-collection makes after a successful Scan
Scanned(m, q, row) ==
  CASE q = "connection" -> [m EXCEPT !.ConnectionsActive = row[1], !.ConnectionsTotal = row[2]]
    [] q = "cache" -> [m EXCEPT !.CacheHitRatio = row[1]]
    [] q = "transaction" -> [m EXCEPT !.TransactionsPerSec = row[1] \div 60]
    [] q = "lock_waits" -> [m EXCEPT !.LockWaits = row[1]]
    [] q = "deadlocks" -> [m EXCEPT !.DeadlockCount = row[1]]
    [] q = "replication" -> [m EXCEPT !.ReplicationLag = row[1]]
    [] q = "bloat" -> [m EXCEPT !.TableBloat = row[1]]
    [] q = "disk_io" -> [m EXCEPT !.DiskIORead = row[1] * 8, !.DiskIOWrite = row[2] * 8]

\* a collection that gives up at the first failed query
AfterQueryAbort(i, ok) == IF ok THEN i + 1 ELSE Len(Queries) + 1

\* the index of the query issued after query i: a failed lock-wait query
\* returns from collectLockMetrics before the deadlock query; every other
\* failure is logged and the next sub-collection is called
AfterQuery(i, ok) == IF Queries[i] = "lock_waits" /\ ~ok THEN i + 2 ELSE i + 1

\* a sub-collection that returns the error of whichever query failed
ReturnsErrAlways(q) == TRUE

\* whether the sub-collection returns the error of a failed query (the
\* deadlock query's error is dropped)
ReturnsErr(q) == q # "deadlocks"

NoOut == [kind |-> "none", id |-> 0, err |-> "nil", metrics |-> NoMetrics]

McIdle ==
  [pc |-> "idle", mode |-> "none", ids |-> <<>>, idx |-> 0, attempted |-> <<>>,
   results |-> <<>>,
   id |-> 0, pool |-> NoPool, q |-> 0, metrics |-> NoMetrics,
   issued |-> <<>>, failedQ |-> {}, warned |-> {}, out |-> NoOut]

\* CollectClusterMetrics returns to collectAllMetrics (which logs an error
\* and goes on with the next id) or to GetMetricsSnapshot
McReturn(c, err, m) ==
  [c EXCEPT !.pc = IF c.mode = "tick" THEN "loop" ELSE "idle",
            !.idx = IF c.mode = "tick" THEN @ + 1 ELSE @,
            !.results = IF c.mode = "tick" THEN Append(@, err) ELSE @,
            !.pool = NoPool, !.q = 0, !.metrics = NoMetrics,
            !.out = [kind |-> "CollectClusterMetrics", id |-> c.id, err |-> err, metrics |-> m]]

\* CollectClusterMetrics(clusterID): NewMetrics, then GetPool, whose shared
\* critical section is the one map lookup and is taken in one step; without
\* a pool CollectClusterMetrics returns the error
CollectClusterMetricsBegin(id, mode) ==
  /\ RLockFree
  /\ LET c == [mc EXCEPT !.mode = mode, !.id = id, !.pool = pools[id],
                         !.q = 0, !.metrics = NewMetrics(id),
                         !.issued = <<>>, !.failedQ = {}, !.warned = {},
                         !.attempted = IF mode = "tick" THEN Append(@, id) ELSE <<>>,
                         !.ids = IF mode = "tick" THEN @ ELSE <<>>,
                         !.idx = IF mode = "tick" THEN @ ELSE 0,
                         !.out = NoOut]
     IN mc' = IF pools[id] = NoPool
                THEN McReturn(c, "NotFound", NoMetrics)
                ELSE [c EXCEPT !.pc = "query", !.q = 1]
  /\ ret' = NoRet
  /\ UNCHANGED <<pools, poolsClosed, nextPool, muWriter, muReaders, pc, op, loc>>
  /\ UNCHANGED <<runVars, faults, load, cc, clusters, ticks>>

\* ---- MetricsCollector.GetMetricsSnapshot ----
GetMetricsSnapshot(id) ==
  /\ mc.pc = "idle"
  /\ CollectClusterMetricsBegin(id, "snapshot")

\* ---- the repository's second source of MetricsCollector, in which the
\* sub-collections assign placeholders in place of the query results
\* (fractional placeholders in tenths) ----
PlaceholderMetrics(id) ==
  [NewMetrics(id) EXCEPT !.ConnectionsActive = 25, !.ConnectionsTotal = 100,
                         !.CacheHitRatio = 985, !.TransactionsPerSec = 1505,
                         !.LockWaits = 5, !.DeadlockCount = 0,
                         !.ReplicationLag = 50, !.TableBloat = 52,
                         !.DiskIORead = 10245, !.DiskIOWrite = 5123]

\* GetMetricsSnapshot of that source: a NewMetrics of its own, then
\* CollectClusterMetrics, which fills a snapshot local to it (mc.metrics)
\* and returns the error alone; the snapshot returned is the caller's
GetMetricsSnapshotPlaceholder(id) ==
  /\ mc.pc = "idle"
  /\ RLockFree
  /\ mc' = [McIdle EXCEPT
              !.mode = "snapshot", !.id = id,
              !.metrics = IF pools[id] = NoPool THEN NewMetrics(id) ELSE PlaceholderMetrics(id),
              !.out = [kind |-> "GetMetricsSnapshot", id |-> id,
                       err |-> IF pools[id] = NoPool THEN "NotFound" ELSE "nil",
                       metrics |-> IF pools[id] = NoPool THEN NoMetrics ELSE NewMetrics(id)]]
  /\ ret' = NoRet
  /\ UNCHANGED <<pools, poolsClosed, nextPool, muWriter, muReaders, pc, op, loc>>
  /\ UNCHANGED <<runVars, faults, load, cc, clusters, ticks>>

\* the context of a query: collectAllMetrics hands down the context of
\* Start, which main cancels at shutdown; a query on a cancelled context
\* returns the context's error
QueryCancelled == mc.mode = "tick" /\ ctxDone

\* the context of a query has no deadline: a query sent to an endpoint that
\* never answers returns only when the context is cancelled
QueryWaits == mc.id \in hung /\ mc.pool \notin poolsClosed /\ ~QueryCancelled

\* one pool.QueryRow(ctx, ...).Scan(...) of the current sub-collection; a
\* closed pool answers every query with an error
CollectClusterMetricsQuery ==
  /\ mc.pc = "query"
  /\ ~QueryWaits
  /\ LET q == Queries[mc.q] IN
     \E ok \in BOOLEAN :
       /\ ok => (mc.pool \notin poolsClosed /\ ~QueryCancelled /\ mc.id \notin hung)
       /\ ~ok => (mc.pool \in poolsClosed \/ q \in faults \/ QueryCancelled)
       /\ LET m == IF ok THEN Scanned(mc.metrics, q, Row(q)) ELSE mc.metrics
              next == AfterQuery(mc.q, ok)
              obs == [mc EXCEPT !.issued = Append(@, q),
                                !.failedQ = IF ok THEN @ ELSE @ \cup {q},
                                !.warned = IF ~ok /\ ReturnsErr(q) THEN @ \cup {SubOf(q)} ELSE @]
          IN mc' = IF next > Len(Queries)
                     THEN McReturn(obs, "nil", m)
                     ELSE [obs EXCEPT !.q = next, !.metrics = m]
  /\ ret' = NoRet
  /\ UNCHANGED <<pools, poolsClosed, nextPool, muWriter, muReaders, pc, op, loc>>
  /\ UNCHANGED <<runVars, faults, load, cc, clusters, ticks>>

\* ---- MetricsCollector.collectAllMetrics, called by Start on every tick ----
\* GetAllClusters copies the keys under the shared lock, in map order; the
\* range loop starts
CollectAllMetricsCopy ==
  /\ mc.pc = "idle"
  /\ RLockFree
  /\ \E s \in Perms(Registered) :
       mc' = [McIdle EXCEPT !.pc = "loop", !.mode = "tick", !.ids = s, !.idx = 1]
  /\ ret' = NoRet
  /\ UNCHANGED <<pools, poolsClosed, nextPool, muWriter, muReaders, pc, op, loc>>
  /\ UNCHANGED <<ctxDone, fired, hung, boot, pa, api, faults, load, cc, clusters>>

\* one tick, outside a Start loop
CollectAllMetricsBegin ==
  /\ ticks = {}
  /\ ticks' = {MC}
  /\ UNCHANGED <<start, timer>>
  /\ CollectAllMetricsCopy

\* the loop body for the next id of the copy
CollectAllMetricsVisit ==
  /\ mc.pc = "loop"
  /\ mc.idx <= Len(mc.ids)
  /\ CollectClusterMetricsBegin(mc.ids[mc.idx], "tick")

\* the copy is exhausted: collectAllMetrics returns to Start
CollectAllMetricsEnd ==
  /\ mc.pc = "loop"
  /\ mc.idx > Len(mc.ids)
  /\ mc' = [mc EXCEPT !.pc = "idle"]
  /\ ret' = NoRet
  /\ UNCHANGED <<pools, poolsClosed, nextPool, muWriter, muReaders, pc, op, loc>>
  /\ UNCHANGED <<runVars, faults, load, cc, clusters, ticks>>

\* ==== ClusterCollector ====

\* the goroutine running ClusterCollector code, as a holder of cp.mu
CC == NumProcs + 2

Collectors == {MC, CC}

\* the goroutine of an HTTP handler (or of another caller) that is inside a
\* call of ClusterCollector; one such goroutine is followed
Api == NumProcs + 3

\* no ClusterCollector call of the API goroutine is in progress
NoApi == [kind |-> "none", id |-> 0, raced |-> FALSE]

\* cc.clusters and its entries have no lock. The call in progress of the
\* API goroutine, after an access of the collector goroutine: the accesses
\* race when both touch the map and one writes it (RegisterCluster and
\* UnregisterCluster write it, the collector writes it when it creates an
\* entry), and when the collector writes a field of an entry that the
\* handler of GetCluster or ListClusters goes on to encode
Overlap(a, access, id) ==
  IF \/ a.kind \in {"RegisterCluster", "UnregisterCluster"} /\ access \in {"mapRead", "mapWrite"}
     \/ a.kind \in {"GetCluster", "GetAllClusters"} /\ access = "mapWrite"
     \/ a.kind = "GetCluster" /\ access = "entryWrite" /\ a.id = id
     \/ a.kind = "GetAllClusters" /\ access = "entryWrite"
    THEN [a EXCEPT !.raced = TRUE]
    ELSE a

\* the Configuration keys CollectClusterInfo fills, in order
ConfigKeys == <<"version", "settings", "databases", "replication", "extensions">>

NoCluster == [Status |-> "none", Configuration |-> {}]

\* models.NewCluster(clusterID, clusterID, "unknown", empty map); the
\* Configuration map is the set of its keys (the values are fixed)
NewCluster == [Status |-> "unknown", Configuration |-> {}]

NoCcOut == [kind |-> "none", id |-> 0, err |-> "nil"]

CcIdle ==
  [pc |-> "idle", ids |-> <<>>, idx |-> 0, attempted |-> <<>>, results |-> <<>>,
   id |-> 0, pool |-> NoPool, k |-> 0, mine |-> FALSE, out |-> NoCcOut]

\* a visit that ends the whole tick when it returns an error
CcReturnEndsTick(c, err) ==
  [c EXCEPT !.pc = "loop",
             !.idx = IF err = "nil" THEN @ + 1 ELSE Len(c.ids) + 1,
             !.results = Append(@, err), !.pool = NoPool, !.k = 0, !.mine = FALSE,
             !.out = [kind |-> "CollectClusterInfo", id |-> c.id, err |-> err]]

\* CollectClusterInfo returns to collectAllClusters, which logs an error and
\* goes on with the next id
CcReturn(c, err) ==
  [c EXCEPT !.pc = "loop", !.idx = @ + 1,
            !.results = Append(@, err), !.pool = NoPool, !.k = 0, !.mine = FALSE,
             !.out = [kind |-> "CollectClusterInfo", id |-> c.id, err |-> err]]

\* ---- ClusterCollector.collectAllClusters, called by Start ----
\* GetAllClusters copies the keys under the shared lock, in map order; the
\* range loop starts
CollectAllClustersCopy ==
  /\ cc.pc = "idle"
  /\ RLockFree
  /\ \E s \in Perms(Registered) : cc' = [CcIdle EXCEPT !.pc = "loop", !.ids = s, !.idx = 1]
  /\ ret' = NoRet
  /\ UNCHANGED <<pools, poolsClosed, nextPool, muWriter, muReaders, pc, op, loc>>
  /\ UNCHANGED <<ctxDone, fired, hung, boot, pa, api, faults, load, mc, clusters>>

\* one tick, outside a Start loop
CollectAllClustersBegin ==
  /\ ticks = {}
  /\ ticks' = {CC}
  /\ UNCHANGED <<start, timer>>
  /\ CollectAllClustersCopy

\* the loop body for the next id of the copy: CollectClusterInfo starts with
\* GetPool (its shared critical section is the one map lookup and is taken
\* in one step); without a pool the error is returned, with one the entry
\* of cc.clusters is looked up or created; the visit holds a pointer to it
\* (mine: the map still holds that entry)
CollectAllClustersVisit ==
  /\ cc.pc = "loop"
  /\ cc.idx <= Len(cc.ids)
  /\ RLockFree
  /\ LET id == cc.ids[cc.idx]
         c == [cc EXCEPT !.id = id, !.attempted = Append(@, id), !.out = NoCcOut]
     IN IF pools[id] = NoPool THEN
          /\ cc' = CcReturn(c, "NotFound")
          /\ UNCHANGED <<clusters, api>>
        ELSE
          /\ cc' = [c EXCEPT !.pc = "hc", !.mine = TRUE]
          /\ clusters' = IF clusters[id] = NoCluster
                           THEN [clusters EXCEPT ![id] = NewCluster]
                           ELSE clusters
          /\ api' = Overlap(api, IF clusters[id] = NoCluster THEN "mapWrite" ELSE "mapRead", id)
  /\ ret' = NoRet
  /\ UNCHANGED <<pools, poolsClosed, nextPool, muWriter, muReaders, pc, op, loc>>
  /\ UNCHANGED <<start, ctxDone, timer, fired, hung, boot, pa, faults, load, mc, ticks>>

\* the copy is exhausted: collectAllClusters returns to Start
CollectAllClustersEnd ==
  /\ cc.pc = "loop"
  /\ cc.idx > Len(cc.ids)
  /\ cc' = [cc EXCEPT !.pc = "idle"]
  /\ ret' = NoRet
  /\ UNCHANGED <<pools, poolsClosed, nextPool, muWriter, muReaders, pc, op, loc>>
  /\ UNCHANGED <<runVars, faults, load, mc, clusters, ticks>>

\* ---- ClusterCollector.CollectClusterInfo ----
\* an entry of the map whose health check made off with an error
HealthCheckFailedStale(cl) == cl

HealthCheckFailedDrops(cl) == NoCluster

\* cluster.UpdateStatus("unhealthy") after a failed health check
HealthCheckFailed(cl) == [cl EXCEPT !.Status = "unhealthy"]

\* a cluster that stays unhealthy once it was marked so
HealthCheckPassedOnce(cl) ==
  IF cl.Status = "unhealthy" THEN cl ELSE [cl EXCEPT !.Status = "healthy"]

\* cluster.UpdateStatus("healthy") after a health check without error
HealthCheckPassed(cl) == [cl EXCEPT !.Status = "healthy"]

\* a write of the visit through its pointer: it reaches the map's entry
\* as long as the map holds the entry the visit looked up
Written(id, cl) ==
  IF cc.mine THEN [clusters EXCEPT ![id] = cl] ELSE clusters

Writes == IF cc.mine THEN "entryWrite" ELSE "none"

\* cc.pool.HealthCheck(clusterID): GetPool again; without a pool the cluster
\* is marked unhealthy and the visit returns the error
CollectClusterInfoHealthCheck ==
  /\ cc.pc = "hc"
  /\ RLockFree
  /\ IF pools[cc.id] = NoPool THEN
       /\ cc' = CcReturn(cc, "NotFound")
       /\ clusters' = Written(cc.id, HealthCheckFailed(clusters[cc.id]))
       /\ api' = Overlap(api, Writes, cc.id)
     ELSE
       /\ cc' = [cc EXCEPT !.pc = "hc_ping", !.pool = pools[cc.id]]
       /\ UNCHANGED <<clusters, api>>
  /\ ret' = NoRet
  /\ UNCHANGED <<pools, poolsClosed, nextPool, muWriter, muReaders, pc, op, loc>>
  /\ UNCHANGED <<start, ctxDone, timer, fired, hung, boot, pa, faults, load, mc, ticks>>

\* HealthCheck's Ping, under its own context with a 5 s timeout: a failure
\* (an endpoint that never answers included) marks the cluster unhealthy
\* and ends the visit, a success marks it healthy
CollectClusterInfoPing ==
  /\ cc.pc = "hc_ping"
  /\ \E pingOK \in BOOLEAN :
       /\ pingOK => (cc.pool \notin poolsClosed /\ cc.id \notin hung)
       /\ IF pingOK THEN
            /\ cc' = [cc EXCEPT !.pc = "sub", !.k = 1, !.pool = NoPool]
            /\ clusters' = Written(cc.id, HealthCheckPassed(clusters[cc.id]))
          ELSE
            /\ cc' = CcReturn(cc, "PingFailed")
            /\ clusters' = Written(cc.id, HealthCheckFailed(clusters[cc.id]))
  /\ api' = Overlap(api, Writes, cc.id)
  /\ ret' = NoRet
  /\ UNCHANGED <<pools, poolsClosed, nextPool, muWriter, muReaders, pc, op, loc>>
  /\ UNCHANGED <<start, ctxDone, timer, fired, hung, boot, pa, faults, load, mc, ticks>>

\* collectVersion .. collectExtensions: each is a GetPool; with a pool the
\* key is set, without one it is left as it was; after the last key the
\* visit returns
CollectClusterInfoSub ==
  /\ cc.pc = "sub"
  /\ RLockFree
  /\ IF pools[cc.id] = NoPool THEN UNCHANGED <<clusters, api>>
     ELSE /\ clusters' = Written(cc.id, [clusters[cc.id] EXCEPT
                                           !.Configuration = @ \cup {ConfigKeys[cc.k]}])
          /\ api' = Overlap(api, Writes, cc.id)
  /\ cc' = IF cc.k = Len(ConfigKeys) THEN CcReturn(cc, "nil")
           ELSE [cc EXCEPT !.k = @ + 1]
  /\ ret' = NoRet
  /\ UNCHANGED <<pools, poolsClosed, nextPool, muWriter, muReaders, pc, op, loc>>
  /\ UNCHANGED <<start, ctxDone, timer, fired, hung, boot, pa, faults, load, mc, ticks>>

\* ---- the ClusterCollector calls of the API goroutine. A call is in
\* progress from its first access to cc.clusters to the end of the handler
\* that made it, and one call is followed; the data race of an access of the collector inside that
\* span has no defined outcome: a raced lookup returns the entry, none or a
\* torn one, a raced map write takes effect or is lost (a run that the
\* runtime aborts for the concurrent map access simply ends). ----
ApiBegin(kind, id) ==
  /\ api = NoApi
  /\ api' = [kind |-> kind, id |-> id, raced |-> FALSE]
  /\ ret' = NoRet
  /\ UNCHANGED <<pools, poolsClosed, nextPool, muWriter, muReaders, pc, op, loc>>
  /\ UNCHANGED <<start, ctxDone, timer, fired, hung, boot, pa, faults, load, mc, cc, clusters, ticks>>

ApiReturn(err, cl, ids) ==
  /\ api' = [api EXCEPT !.kind = "returned"]
  /\ ret' = [proc |-> Api, kind |-> api.kind, id |-> api.id, err |-> err,
              pool |-> NoPool, ids |-> ids, cluster |-> cl]
  /\ UNCHANGED <<pools, poolsClosed, nextPool, muWriter, muReaders, pc, op, loc>>
  /\ UNCHANGED <<start, ctxDone, timer, fired, hung, boot, pa, faults, load, mc, ticks>>

\* what a reader of a racing write may find in place of an entry
Torn == [Status |-> "torn", Configuration |-> {}]

\* GetCluster(clusterID): the lookup, then the handler encodes the entry
GetClusterBegin(id) == ApiBegin("GetCluster", id)

GetClusterEnd ==
  /\ api.kind = "GetCluster"
  /\ \E cl \in (IF api.raced THEN {clusters[api.id], NoCluster, Torn}
                              ELSE {clusters[api.id]}) :
       ApiReturn(IF cl = NoCluster THEN "NotFound" ELSE "nil", cl, <<>>)
  /\ UNCHANGED <<cc, clusters>>

\* GetAllClusters(): the range over the map, in map order, then the
\* handler encodes the entries
InfoGetAllClustersBegin == ApiBegin("GetAllClusters", 0)

InfoGetAllClustersEnd ==
  /\ api.kind = "GetAllClusters"
  /\ LET present == {id \in Ids : clusters[id] # NoCluster} IN
     \E S \in (IF api.raced THEN SUBSET present ELSE {present}) :
       \E s \in Perms(S) : ApiReturn("nil", NoCluster, s)
  /\ UNCHANGED <<cc, clusters>>

\* the entries a caller registers: built by the caller, with a key of its own
RegisterInputs == {[Status |-> "unknown", Configuration |-> {"owner"}]}

\* RegisterCluster(cluster): the entry of cluster.ID is replaced; a visit
\* in progress for that id keeps its pointer to the entry it looked up
RegisterClusterBegin(id) == ApiBegin("RegisterCluster", id)

RegisterClusterEnd ==
  /\ api.kind = "RegisterCluster"
  /\ \E cl \in RegisterInputs, applied \in (IF api.raced THEN BOOLEAN ELSE {TRUE}) :
       /\ clusters' = IF applied THEN [clusters EXCEPT ![api.id] = cl] ELSE clusters
       /\ cc' = [cc EXCEPT !.mine = @ /\ ~(applied /\ cc.id = api.id)]
       /\ ApiReturn("nil", NoCluster, <<>>)

\* UnregisterCluster(clusterID): NotFound without an entry, else the delete
UnregisterClusterBegin(id) == ApiBegin("UnregisterCluster", id)

\* an UnregisterCluster that reports success for an id without an entry
UnregisterClusterEndSilent ==
  /\ api.kind = "UnregisterCluster"
  /\ \E applied \in (IF api.raced THEN BOOLEAN ELSE {TRUE}) :
       /\ clusters' = IF applied THEN [clusters EXCEPT ![api.id] = NoCluster] ELSE clusters
       /\ cc' = [cc EXCEPT !.mine = @ /\ ~(applied /\ cc.id = api.id)]
       /\ ApiReturn("nil", NoCluster, <<>>)

\* UnregisterCluster(clusterID) returns
UnregisterClusterEnd ==
  /\ api.kind = "UnregisterCluster"
  /\ IF clusters[api.id] = NoCluster THEN
       /\ ApiReturn("NotFound", NoCluster, <<>>)
       /\ UNCHANGED <<cc, clusters>>
     ELSE
       \E applied \in (IF api.raced THEN BOOLEAN ELSE {TRUE}) :
         /\ clusters' = IF applied THEN [clusters EXCEPT ![api.id] = NoCluster] ELSE clusters
         /\ cc' = [cc EXCEPT !.mine = @ /\ ~(applied /\ cc.id = api.id)]
         /\ ApiReturn("nil", NoCluster, <<>>)

\* the caller, after a call returned, makes its next call of the
\* ClusterCollector; ret keeps the result of the call before until the
\* new one returns
NextCall(kind, id) ==
  /\ api.kind = "returned"
  /\ kind \in {"GetCluster", "RegisterCluster", "UnregisterCluster"}
  /\ api' = [kind |-> kind, id |-> id, raced |-> FALSE]
  /\ UNCHANGED <<regVars, faults, load, mc, cc, clusters, ticks, start, ctxDone, timer, fired, hung, boot, pa>>

\* ==== the Start loops of the collectors ====

\* the ticker of a started collector fires; ticker.C holds one firing
TickerFires(c) ==
  /\ start[c] \in {"initial", "select"}
  /\ c \notin timer
  /\ fired < MaxFirings
  /\ timer' = timer \cup {c}
  /\ fired' = fired + 1
  /\ UNCHANGED <<regVars, faults, load, mc, cc, clusters, ticks, start, ctxDone, hung, boot, pa, api>>

\* main receives the signal and calls cancel()
Cancel ==
  /\ ~ctxDone
  /\ ctxDone' = TRUE
  /\ UNCHANGED <<regVars, faults, load, mc, cc, clusters, ticks, start, timer, fired, hung, boot, pa, api>>

\* ---- MetricsCollector.Start ----
\* the select takes the case of ticker.C, which is ready; when ctx.Done()
\* is ready as well, the select chooses either case
McStartTick ==
  /\ start[MC] = "select"
  /\ MC \in timer
  /\ timer' = timer \ {MC}
  /\ UNCHANGED <<start, ticks>>
  /\ CollectAllMetricsCopy

\* the select takes the case of ctx.Done(): Start returns
McStartDone ==
  /\ start[MC] = "select"
  /\ mc.pc = "idle"
  /\ ctxDone
  /\ start' = [start EXCEPT ![MC] = "stopped"]
  /\ UNCHANGED <<regVars, faults, load, mc, cc, clusters, ticks, ctxDone, timer, fired, hung, boot, pa, api>>

\* ---- ClusterCollector.Start ----
\* the initial collection, before the loop
CcStartInitial ==
  /\ start[CC] = "initial"
  /\ start' = [start EXCEPT ![CC] = "select"]
  /\ UNCHANGED <<timer, ticks>>
  /\ CollectAllClustersCopy

CcStartTick ==
  /\ start[CC] = "select"
  /\ CC \in timer
  /\ timer' = timer \ {CC}
  /\ UNCHANGED <<start, ticks>>
  /\ CollectAllClustersCopy

CcStartDone ==
  /\ start[CC] = "select"
  /\ cc.pc = "idle"
  /\ ctxDone
  /\ start' = [start EXCEPT ![CC] = "stopped"]
  /\ UNCHANGED <<regVars, faults, load, mc, cc, clusters, ticks, ctxDone, timer, fired, hung, boot, pa, api>>

\* ==== PerformanceAnalyzer ====

\* DefaultThresholds()
DefaultThresholds ==
  [MaxConnectionsPercent |-> 80, MinCacheHitRatio |-> 95, MaxCPUPercent |-> 80,
   MaxMemoryPercent |-> 85, MaxReplicationLagMs |-> 10000,
   MaxSlowQueryTimeMs |-> 1000, MaxTableBloatPercent |-> 20]

\* getSeverity with the limits excluded from their tiers
getSeverityAbove(value, warning, high, critical) ==
  CASE value > critical -> "critical"
    [] value <= critical /\ value > high -> "high"
    [] value <= high /\ value > warning -> "medium"
    [] OTHER -> "low"

\* getSeverity and getSeverityLag
getSeverity(value, warning, high, critical) ==
  CASE value >= critical -> "critical"
    [] value < critical /\ value >= high -> "high"
    [] value < high /\ value >= warning -> "medium"
    [] OTHER -> "low"

\* a getSeverityBelow that compares upwards
getSeverityBelowUpward(value, warning, high, critical) ==
  CASE value >= critical -> "critical"
    [] value < critical /\ value >= high -> "high"
    [] value < high /\ value >= warning -> "medium"
    [] OTHER -> "low"

\* getSeverityBelow
getSeverityBelow(value, warning, high, critical) ==
  CASE value <= critical -> "critical"
    [] value > critical /\ value <= high -> "high"
    [] value > high /\ value <= warning -> "medium"
    [] OTHER -> "low"

\* models.NewAlert at the time now of its time.Now(). Title and Description
\* are texts formatted from the other fields; ID, Metadata and the times
\* of acknowledgement and resolution are not modelled
NewAlert(type, severity, clusterID, now) ==
  [Type |-> type, Severity |-> severity, ClusterID |-> clusterID, Metric |-> "",
   Threshold |-> 0, CurrentValue |-> 0, Timestamp |-> now, Status |-> "active",
   Actions |-> <<>>]

\* a.Acknowledge(by)
Acknowledge(a) == [a EXCEPT !.Status = "acknowledged"]

\* a.Resolve()
Resolve(a) == [a EXCEPT !.Status = "resolved"]

\* an analyzer that puts the critical alerts first
AppendIfBySeverity(alerts, cond, alert) ==
  IF ~cond THEN alerts
  ELSE IF alert.Severity = "critical" THEN <<alert>> \o alerts
  ELSE Append(alerts, alert)

\* if cond { ...; alerts = append(alerts, alert) }
AppendIf(alerts, cond, alert) == IF cond THEN Append(alerts, alert) ELSE alerts

\* the threshold of the lock-wait check
LockWaitsLimit == 100

\* AnalyzeMetrics(metrics) at the time now: the eight checks in their order.
\* connPercent is active / total * 100; its comparisons are made on
\* active * 100 and the other side times total, total being positive, and
\* its value as CurrentValue is the quotient (whole on the snapshots drawn)
AnalyzeMetrics(t, m, now) ==
  LET conn == m.ConnectionsActive * 100
      tot == m.ConnectionsTotal
      a1 == AppendIf(<<>>,
              tot > 0 /\ conn > t.MaxConnectionsPercent * tot,
              [NewAlert("connection",
                        getSeverity(conn, t.MaxConnectionsPercent * tot, 90 * tot, 95 * tot),
                        m.ClusterID, now)
                 EXCEPT !.Metric = "connections_active",
                        !.Threshold = t.MaxConnectionsPercent,
                        !.CurrentValue = IF tot > 0 THEN conn \div tot ELSE 0,
                        !.Actions = <<"Consider increasing max_connections or optimizing connection pooling">>])
      a2 == AppendIf(a1, m.CacheHitRatio < t.MinCacheHitRatio,
              [NewAlert("performance",
                        getSeverityBelow(m.CacheHitRatio, t.MinCacheHitRatio, 90, 85),
                        m.ClusterID, now)
                 EXCEPT !.Metric = "cache_hit_ratio",
                        !.Threshold = t.MinCacheHitRatio,
                        !.CurrentValue = m.CacheHitRatio,
                        !.Actions = <<"Consider increasing shared_buffers",
                                      "Review query patterns for optimization">>])
      a3 == AppendIf(a2, m.CPUUsage > t.MaxCPUPercent,
              [NewAlert("performance", getSeverity(m.CPUUsage, t.MaxCPUPercent, 90, 95),
                        m.ClusterID, now)
                 EXCEPT !.Metric = "cpu_usage",
                        !.Threshold = t.MaxCPUPercent,
                        !.CurrentValue = m.CPUUsage,
                        !.Actions = <<"Identify and optimize expensive queries",
                                      "Consider scaling up the instance">>])
      a4 == AppendIf(a3, m.MemoryUsage > t.MaxMemoryPercent,
              [NewAlert("capacity", getSeverity(m.MemoryUsage, t.MaxMemoryPercent, 90, 95),
                        m.ClusterID, now)
                 EXCEPT !.Metric = "memory_usage",
                        !.Threshold = t.MaxMemoryPercent,
                        !.CurrentValue = m.MemoryUsage,
                        !.Actions = <<"Review and optimize memory-intensive queries",
                                      "Consider increasing available memory">>])
      a5 == AppendIf(a4, m.ReplicationLag > t.MaxReplicationLagMs,
              [NewAlert("replication",
                        getSeverity(m.ReplicationLag, t.MaxReplicationLagMs, 30000, 60000),
                        m.ClusterID, now)
                 EXCEPT !.Metric = "replication_lag",
                        !.Threshold = t.MaxReplicationLagMs,
                        !.CurrentValue = m.ReplicationLag,
                        !.Actions = <<"Check network connectivity between primary and replica",
                                      "Review write load on primary">>])
      a6 == AppendIf(a5, m.LockWaits > LockWaitsLimit,
              [NewAlert("performance", "medium", m.ClusterID, now)
                 EXCEPT !.Metric = "lock_waits",
                        !.CurrentValue = m.LockWaits,
                        !.Actions = <<"Review long-running transactions",
                                      "Optimize query access patterns">>])
      a7 == AppendIf(a6, m.DeadlockCount > 0,
              [NewAlert("performance", "high", m.ClusterID, now)
                 EXCEPT !.Metric = "deadlock_count",
                        !.CurrentValue = m.DeadlockCount,
                        !.Actions = <<"Review transaction ordering",
                                      "Consider implementing retry logic">>])
      a8 == AppendIf(a7, m.TableBloat > t.MaxTableBloatPercent,
              [NewAlert("capacity", getSeverity(m.TableBloat, t.MaxTableBloatPercent, 30, 40),
                        m.ClusterID, now)
                 EXCEPT !.Metric = "table_bloat",
                        !.Threshold = t.MaxTableBloatPercent,
                        !.CurrentValue = m.TableBloat,
                        !.Actions = <<"Run VACUUM ANALYZE",
                                      "Consider VACUUM FULL for heavily bloated tables">>])
  IN a8

\* ---- models.HealthStatus ----

\* a models.HealthCheck; Message, LastChecked and Value are not modelled
HealthCheck(name, status) == [Name |-> name, Status |-> status]

\* models.NewHealthStatus(clusterID); LastCheck is not modelled
NewHealthStatus(clusterID) ==
  [ClusterID |-> clusterID, Status |-> "unknown", Score |-> 0, ActiveAlerts |-> 0,
   CriticalAlerts |-> 0, Checks |-> <<>>]

\* no health status
NoHealth == [NewHealthStatus(0) EXCEPT !.Status = "none"]

\* a score taken from the tally of critical alerts
calculateScoreByAlerts(hs) ==
  [hs EXCEPT !.Score = IF hs.CriticalAlerts > 0 THEN 0 ELSE 100,
             !.Status = IF hs.CriticalAlerts > 0 THEN "critical" ELSE "healthy"]

\* hs.calculateScore()
calculateScore(hs) ==
  IF Len(hs.Checks) = 0
    THEN [hs EXCEPT !.Score = 0, !.Status = "unknown"]
    ELSE LET passedChecks ==
               Len(SelectSeq(hs.Checks, LAMBDA c : c.Status = "ok" \/ c.Status = "healthy"))
             score == (passedChecks * 100) \div Len(hs.Checks)
         IN [hs EXCEPT !.Score = score,
                       !.Status = CASE score >= 90 -> "healthy"
                                    [] score < 90 /\ score >= 70 -> "warning"
                                    [] score < 70 /\ score >= 50 -> "degraded"
                                    [] OTHER -> "critical"]

\* an AddCheck that leaves the score of the checks before
AddCheckStaleScore(hs, check) == [hs EXCEPT !.Checks = Append(@, check)]

\* hs.AddCheck(check)
AddCheck(hs, check) == calculateScore([hs EXCEPT !.Checks = Append(@, check)])

\* a tally that skips every alert
CountedNone(a) == FALSE

\* a tally over the alerts of every lifecycle status
CountedAny(a) == TRUE

\* if alert.Status == "active": the alerts that GenerateHealthStatus tallies
Counted(a) == a.Status = "active"

\* a check that never warns
CheckStatusOk(exceeded) == "ok"

\* status := "ok"; if <limit exceeded> { status = "warning" }
CheckStatus(exceeded) == IF exceeded THEN "warning" ELSE "ok"

\* pa.GenerateHealthStatus(clusterID, metrics, alerts)
GenerateHealthStatus(t, clusterID, m, alerts) ==
  LET active == SelectSeq(alerts, Counted)
      criticalCount == Len(SelectSeq(active, LAMBDA a : a.Severity = "critical"))
      h0 == [NewHealthStatus(clusterID) EXCEPT !.ActiveAlerts = Len(active),
                                               !.CriticalAlerts = criticalCount]
      h1 == AddCheck(h0, HealthCheck("Database Connectivity", "ok"))
      h2 == IF m.ConnectionsTotal > 0
              THEN AddCheck(h1, HealthCheck("Connection Pool",
                     CheckStatus(m.ConnectionsActive * 100
                                   > t.MaxConnectionsPercent * m.ConnectionsTotal)))
              ELSE h1
      h3 == AddCheck(h2, HealthCheck("Cache Performance",
                                     CheckStatus(m.CacheHitRatio < t.MinCacheHitRatio)))
      h4 == AddCheck(h3, HealthCheck("CPU Usage", CheckStatus(m.CPUUsage > t.MaxCPUPercent)))
      h5 == AddCheck(h4, HealthCheck("Memory Usage",
                                     CheckStatus(m.MemoryUsage > t.MaxMemoryPercent)))
  IN h5

\* the most checks of a health status that a run follows
MaxChecks == 6

\* a models.QueryMetrics, on the fields the analyzer reads
NoQuery == [ClusterID |-> 0, ExecutionTime |-> 0, TempBlocksRead |-> 0, TempBlocksWritten |-> 0]

\* the latest reading of the clock that a run follows
MaxClock == 1

\* no call of the analyzer
NoAnalysis ==
  [pc |-> "none", thresholds |-> DefaultThresholds, metrics |-> NoMetrics,
   alerts |-> <<>>, again |-> <<>>, now |-> 0, health |-> NoHealth, qm |-> NoQuery]

\* the variables but pa
others ==
  <<regVars, faults, load, mc, cc, clusters, ticks, start, ctxDone, timer, fired, hung, boot, api>>

\* pa.AnalyzeMetrics(metrics) returns, at a reading n of the clock
AnalyzeMetricsCall ==
  /\ pa.pc = "called"
  /\ \E n \in pa.now..MaxClock :
       pa' = [pa EXCEPT !.pc = "returned", !.now = n,
                        !.alerts = AnalyzeMetrics(pa.thresholds, pa.metrics, n)]
  /\ UNCHANGED others

\* the caller calls pa.AnalyzeMetrics(metrics) a second time, on the same
\* snapshot and with the same analyzer, at the same reading or a later one
AnalyzeMetricsAgain ==
  /\ pa.pc = "returned"
  /\ \E n \in pa.now..MaxClock :
       pa' = [pa EXCEPT !.pc = "again", !.now = n,
                        !.again = AnalyzeMetrics(pa.thresholds, pa.metrics, n)]
  /\ UNCHANGED others

\* the limit of temp blocks read or written of a statement
TempBlocksLimit == 10000

\* a severity whose tiers begin at 5 and 10 times the threshold
severityFromLimit(executionTime, maxSlowQueryTimeMs) ==
  IF executionTime >= maxSlowQueryTimeMs * 10 THEN "critical"
  ELSE IF executionTime >= maxSlowQueryTimeMs * 5 THEN "high"
  ELSE "medium"

\* severity := medium; if > 5 * threshold: high; if > 10 * threshold: critical
severity(executionTime, maxSlowQueryTimeMs) ==
  IF executionTime > maxSlowQueryTimeMs * 10 THEN "critical"
  ELSE IF executionTime > maxSlowQueryTimeMs * 5 THEN "high"
  ELSE "medium"

\* AnalyzeQueryPerformance(qm) at the time now
AnalyzeQueryPerformance(t, qm, now) ==
  LET a1 == AppendIf(<<>>, qm.ExecutionTime > t.MaxSlowQueryTimeMs,
              [NewAlert("query", severity(qm.ExecutionTime, t.MaxSlowQueryTimeMs),
                        qm.ClusterID, now)
                 EXCEPT !.Metric = "execution_time",
                        !.Threshold = t.MaxSlowQueryTimeMs,
                        !.CurrentValue = qm.ExecutionTime,
                        !.Actions = <<"Analyze query with EXPLAIN ANALYZE",
                                      "Check for missing indexes",
                                      "Consider query optimization">>])
      a2 == AppendIf(a1,
              qm.TempBlocksRead > TempBlocksLimit \/ qm.TempBlocksWritten > TempBlocksLimit,
              [NewAlert("performance", "medium", qm.ClusterID, now)
                 EXCEPT !.Actions = <<"Consider increasing work_mem",
                                      "Optimize sort and hash operations">>])
  IN a2

\* pa.AnalyzeQueryPerformance(qm) returns, at a reading n of the clock
AnalyzeQueryPerformanceCall ==
  /\ pa.pc = "query_called"
  /\ \E n \in pa.now..MaxClock :
       pa' = [pa EXCEPT !.pc = "query_returned", !.now = n,
                        !.alerts = AnalyzeQueryPerformance(pa.thresholds, pa.qm, n)]
  /\ UNCHANGED others

\* a.Acknowledge(by) on the i-th alert that AnalyzeMetrics returned
AcknowledgeCall(i) ==
  /\ pa.pc = "returned"
  /\ i \in 1..Len(pa.alerts)
  /\ pa' = [pa EXCEPT !.alerts[i] = Acknowledge(@)]
  /\ UNCHANGED others

\* a.Resolve() on the i-th alert that AnalyzeMetrics returned
ResolveCall(i) ==
  /\ pa.pc = "returned"
  /\ i \in 1..Len(pa.alerts)
  /\ pa' = [pa EXCEPT !.alerts[i] = Resolve(@)]
  /\ UNCHANGED others

\* pa.GenerateHealthStatus(clusterID, metrics, alerts) returns, on the
\* snapshot that was analyzed and the alerts as they are now
GenerateHealthStatusCall ==
  /\ pa.pc = "returned"
  /\ pa' = [pa EXCEPT !.pc = "health",
                      !.health = GenerateHealthStatus(pa.thresholds, pa.metrics.ClusterID,
                                                      pa.metrics, pa.alerts)]
  /\ UNCHANGED others

\* hs.AddCheck(check) by a caller, on a new health status or on a generated one
AddCheckCall(status) ==
  /\ pa.pc \in {"checks", "health"}
  /\ Len(pa.health.Checks) < MaxChecks
  /\ pa' = [pa EXCEPT !.health = AddCheck(@, HealthCheck("Custom", status))]
  /\ UNCHANGED others

\* Handler.GetClusterHealth after its GetMetricsSnapshot returned without
\* an error: AnalyzeMetrics on the snapshot, then GenerateHealthStatus on
\* the snapshot and the alerts, with the analyzer of main (default thresholds)
GetClusterHealth ==
  /\ pa.pc = "none"
  /\ mc.pc = "idle"
  /\ mc.mode = "snapshot"
  /\ mc.out.err = "nil"
  /\ \E n \in pa.now..MaxClock :
       LET m == mc.out.metrics
           alerts == AnalyzeMetrics(DefaultThresholds, m, n)
       IN pa' = [pa EXCEPT !.pc = "health", !.now = n, !.metrics = m, !.alerts = alerts,
                           !.health = GenerateHealthStatus(DefaultThresholds, mc.out.id, m, alerts)]
  /\ UNCHANGED others

\* ---- the registry under concurrent callers ----
Init ==
  /\ pools = [id \in Ids |-> NoPool]
  /\ poolsClosed = {}
  /\ nextPool = [id \in Ids |-> 0]
  /\ muWriter = NoProc
  /\ muReaders = {}
  /\ pc = [p \in Procs |-> "idle"]
  /\ op = [p \in Procs |-> NoOp]
  /\ loc = [p \in Procs |-> NoLoc]
  /\ ret = NoRet
  /\ faults = {}
  /\ load = 0
  /\ mc = McIdle
  /\ cc = CcIdle
  /\ clusters = [id \in Ids |-> NoCluster]
  /\ ticks = {}
  /\ start = [c \in Collectors |-> "off"]
  /\ ctxDone = FALSE
  /\ timer = {}
  /\ fired = 0
  /\ hung = {}
  /\ boot = NoBoot
  /\ api = NoApi
  /\ pa = NoAnalysis

Next ==
  \E p \in Procs :
    \/ \E id \in Ids : AddClusterBegin(p, id)
    \/ AddClusterPing(p)
    \/ \E id \in Ids : GetPoolBegin(p, id)
    \/ \E kind \in GetPoolCallers : GetPoolEnd(p, kind)
    \/ HealthCheckPing(p)
    \/ GetAllClustersBegin(p)
    \/ GetAllClustersEnd(p)
    \/ \E id \in Ids : RemoveClusterBegin(p, id)
    \/ RemoveClusterEnd(p)
    \/ CloseBegin(p)
    \/ CloseEnd(p)

Spec == Init /\ [][Next]_vars

\* ---- on-demand metric collection while one caller mutates the registry.
\* The caller's calls are the ones that change the registry: an AddCluster
\* that builds a pool, a RemoveCluster of a registered id. ----
Mutator == 1

InitMetrics ==
  /\ pools = [id \in Ids |-> NoPool]
  /\ poolsClosed = {}
  /\ nextPool = [id \in Ids |-> 0]
  /\ muWriter = NoProc
  /\ muReaders = {}
  /\ pc = [p \in Procs |-> "idle"]
  /\ op = [p \in Procs |-> NoOp]
  /\ loc = [p \in Procs |-> NoLoc]
  /\ ret = NoRet
  /\ faults = QueryNames
  /\ load \in 1..MaxLoad
  /\ mc = McIdle
  /\ cc = CcIdle
  /\ clusters = [id \in Ids |-> NoCluster]
  /\ ticks = {}
  /\ start = [c \in Collectors |-> "off"]
  /\ ctxDone = FALSE
  /\ timer = {}
  /\ fired = 0
  /\ hung = {}
  /\ boot = NoBoot
  /\ api = NoApi
  /\ pa = NoAnalysis

NextMetrics ==
  \/ \E id \in Ids : AddClusterBegin(Mutator, id) /\ pc'[Mutator] = "add_ping"
  \/ AddClusterPing(Mutator)
  \/ \E id \in Registered : RemoveClusterBegin(Mutator, id)
  \/ RemoveClusterEnd(Mutator)
  \/ \E id \in Ids : GetMetricsSnapshot(id)
  \/ \E id \in Ids : GetMetricsSnapshotPlaceholder(id)
  \/ CollectClusterMetricsQuery

SpecMetrics == InitMetrics /\ [][NextMetrics]_vars

\* ---- one tick of either collector while one caller mutates the registry.
\* The collectors only read the registry and share nothing else, and a tick
\* starts from whatever registry the caller has produced, so one tick of
\* one collector is followed. ----
TickFaults == {"cache", "lock_waits"}

InitTick ==
  /\ pools = [id \in Ids |-> NoPool]
  /\ poolsClosed = {}
  /\ nextPool = [id \in Ids |-> 0]
  /\ muWriter = NoProc
  /\ muReaders = {}
  /\ pc = [p \in Procs |-> "idle"]
  /\ op = [p \in Procs |-> NoOp]
  /\ loc = [p \in Procs |-> NoLoc]
  /\ ret = NoRet
  /\ faults = TickFaults
  /\ load = MaxLoad
  /\ mc = McIdle
  /\ cc = CcIdle
  /\ clusters = [id \in Ids |-> NoCluster]
  /\ ticks = {}
  /\ start = [c \in Collectors |-> "off"]
  /\ ctxDone = FALSE
  /\ timer = {}
  /\ fired = 0
  /\ hung = {}
  /\ boot = NoBoot
  /\ api = NoApi
  /\ pa = NoAnalysis

NextTick ==
  \/ \E id \in Ids : AddClusterBegin(Mutator, id) /\ pc'[Mutator] = "add_ping"
  \/ AddClusterPing(Mutator)
  \/ \E id \in Registered : RemoveClusterBegin(Mutator, id)
  \/ RemoveClusterEnd(Mutator)
  \/ CollectAllMetricsBegin
  \/ CollectAllMetricsVisit
  \/ CollectClusterMetricsQuery
  \/ CollectAllMetricsEnd
  \/ CollectAllClustersBegin
  \/ CollectAllClustersVisit
  \/ CollectClusterInfoHealthCheck
  \/ CollectClusterInfoPing
  \/ CollectClusterInfoSub
  \/ CollectAllClustersEnd

SpecTick == InitTick /\ [][NextTick]_vars

\* ---- a collector running its Start loop until shutdown. The registry is
\* as startup left it: the configured clusters whose AddCluster succeeded
\* hold the first pool built for them. The collectors share only the
\* registry, which they read, and the context, so one of them is followed. ----
InitRun ==
  /\ \E S \in SUBSET Ids :
       /\ pools = [id \in Ids |-> IF id \in S THEN id ELSE NoPool]
       /\ nextPool = [id \in Ids |-> IF id \in S THEN 1 ELSE 0]
       /\ hung \in SUBSET S
  /\ boot = NoBoot
  /\ poolsClosed = {}
  /\ muWriter = NoProc
  /\ muReaders = {}
  /\ pc = [p \in Procs |-> "idle"]
  /\ op = [p \in Procs |-> NoOp]
  /\ loc = [p \in Procs |-> NoLoc]
  /\ ret = NoRet
  /\ faults = {}
  /\ load = MaxLoad
  /\ mc = McIdle
  /\ cc = CcIdle
  /\ clusters = [id \in Ids |-> NoCluster]
  /\ ticks = {}
  /\ start \in {[c \in Collectors |-> IF c = MC THEN "select" ELSE "off"],
                [c \in Collectors |-> IF c = CC THEN "initial" ELSE "off"]}
  /\ ctxDone = FALSE
  /\ timer = {}
  /\ fired = 0
  /\ api = NoApi
  /\ pa = NoAnalysis

NextRun ==
  \/ \E c \in Collectors : TickerFires(c)
  \/ Cancel
  \/ McStartTick
  \/ McStartDone
  \/ CollectAllMetricsVisit
  \/ CollectClusterMetricsQuery
  \/ CollectAllMetricsEnd
  \/ CcStartInitial
  \/ CcStartTick
  \/ CcStartDone
  \/ CollectAllClustersVisit
  \/ CollectClusterInfoHealthCheck
  \/ CollectClusterInfoPing
  \/ CollectClusterInfoSub
  \/ CollectAllClustersEnd

SpecRun == InitRun /\ [][NextRun]_vars

\* ---- main from its startup loop to the shutdown: every configured
\* cluster is handed to AddCluster in the order of the configuration, then
\* the collectors are started; Validate asks for at least one cluster and
\* does not compare their ids, so an id can be configured more than once.
\* As in the runs above, one collector is followed. ----
\* the most clusters of a configuration
MaxCfg == 2

Main == 1
Handler == 2

\* the configurations that Validate accepts
Configurations == UNION {[1..n -> Ids] : n \in 1..MaxCfg}

\* pool.AddCluster(clusterCfg.ID, connConfig) of the entry the loop is at
MainAddCluster ==
  /\ boot.k <= Len(boot.cfg)
  /\ ret = NoRet
  /\ AddClusterBegin(Main, boot.cfg[boot.k])

\* AddCluster has returned: log.Errorf and continue on an error, log.Infof
\* otherwise; either way the loop goes to the next entry
MainContinue ==
  /\ boot.k <= Len(boot.cfg)
  /\ pc[Main] = "idle"
  /\ ret.proc = Main /\ ret.kind = "AddCluster"
  /\ boot' = [boot EXCEPT !.k = @ + 1,
                          !.logged = IF ret.err # "nil" THEN @ \cup {ret.id} ELSE @]
  /\ ret' = NoRet
  /\ UNCHANGED <<pools, poolsClosed, nextPool, muWriter, muReaders, pc, op, loc,
                 faults, load, mc, cc, clusters, ticks, start, ctxDone, timer, fired, hung, pa, api>>

\* the loop is over: go metricsCollector.Start(ctx), go clusterCollector.Start(ctx)
MainStartCollectors ==
  /\ boot.cfg # <<>>
  /\ boot.k = Len(boot.cfg) + 1
  /\ \A c \in Collectors : start[c] = "off"
  /\ start' \in {[c \in Collectors |-> IF c = MC THEN "select" ELSE "off"],
                 [c \in Collectors |-> IF c = CC THEN "initial" ELSE "off"]}
  /\ UNCHANGED <<regVars, faults, load, mc, cc, clusters, ticks, ctxDone, timer, fired, hung, boot, pa, api>>

Serving == \E c \in Collectors : start[c] # "off"

InitStartup ==
  /\ pools = [id \in Ids |-> NoPool]
  /\ poolsClosed = {}
  /\ nextPool = [id \in Ids |-> 0]
  /\ muWriter = NoProc
  /\ muReaders = {}
  /\ pc = [p \in Procs |-> "idle"]
  /\ op = [p \in Procs |-> NoOp]
  /\ loc = [p \in Procs |-> NoLoc]
  /\ ret = NoRet
  /\ faults = {}
  /\ load = MaxLoad
  /\ mc = McIdle
  /\ cc = CcIdle
  /\ clusters = [id \in Ids |-> NoCluster]
  /\ ticks = {}
  /\ start = [c \in Collectors |-> "off"]
  /\ ctxDone = FALSE
  /\ timer = {}
  /\ fired = 0
  /\ hung = {}
  /\ \E cfg \in Configurations : boot = [cfg |-> cfg, k |-> 1, logged |-> {}]
  /\ api = NoApi
  /\ pa = NoAnalysis

NextStartup ==
  \/ MainAddCluster
  \/ AddClusterPing(Main)
  \/ MainContinue
  \/ MainStartCollectors
  \/ Serving /\ GetAllClustersBegin(Handler)
  \/ Serving /\ GetAllClustersEnd(Handler)
  \/ Serving /\ NextRun

SpecStartup == InitStartup /\ [][NextStartup]_vars

\* ---- one tick of the ClusterCollector some time after startup, beside a
\* goroutine that removes a cluster or closes the registry and a goroutine
\* that calls the ClusterCollector. Every cluster holds its first pool,
\* and the initial collection of Start left each of them a healthy entry
\* with every key collected. ----
CollectedEntry ==
  [Status |-> "healthy", Configuration |-> {ConfigKeys[k] : k \in 1..Len(ConfigKeys)}]

InitInfo ==
  /\ pools = [id \in Ids |-> id]
  /\ nextPool = [id \in Ids |-> 1]
  /\ clusters = [id \in Ids |-> CollectedEntry]
  /\ hung = {}
  /\ boot = NoBoot
  /\ poolsClosed = {}
  /\ muWriter = NoProc
  /\ muReaders = {}
  /\ pc = [p \in Procs |-> "idle"]
  /\ op = [p \in Procs |-> NoOp]
  /\ loc = [p \in Procs |-> NoLoc]
  /\ ret = NoRet
  /\ faults = {}
  /\ load = MaxLoad
  /\ mc = McIdle
  /\ cc = CcIdle
  /\ ticks = {}
  /\ start = [c \in Collectors |-> "off"]
  /\ ctxDone = FALSE
  /\ timer = {}
  /\ fired = 0
  /\ api = NoApi
  /\ pa = NoAnalysis

NextInfo ==
  \/ \E id \in Registered : RemoveClusterBegin(Mutator, id) /\ poolsClosed = {}
  \/ RemoveClusterEnd(Mutator)
  \/ CloseBegin(Mutator) /\ poolsClosed = {}
  \/ CloseEnd(Mutator)
  \/ CollectAllClustersBegin
  \/ CollectAllClustersVisit
  \/ CollectClusterInfoHealthCheck
  \/ CollectClusterInfoPing
  \/ CollectClusterInfoSub
  \/ CollectAllClustersEnd
  \/ \E id \in Ids : GetClusterBegin(id)
  \/ GetClusterEnd
  \/ InfoGetAllClustersBegin
  \/ InfoGetAllClustersEnd
  \/ \E id \in Ids : RegisterClusterBegin(id)
  \/ RegisterClusterEnd
  \/ \E id \in Ids : UnregisterClusterBegin(id)
  \/ UnregisterClusterEnd

SpecInfo == InitInfo /\ [][NextInfo]_vars

\* ---- AnalyzeMetrics on the snapshots and thresholds around each check's
\* limit: the analyzer with the default thresholds or with thresholds of
\* the caller's, a snapshot whose every field is at its limit or past it ----
CustomThresholds ==
  [MaxConnectionsPercent |-> 50, MinCacheHitRatio |-> 99, MaxCPUPercent |-> 50,
   MaxMemoryPercent |-> 50, MaxReplicationLagMs |-> 0,
   MaxSlowQueryTimeMs |-> 1000, MaxTableBloatPercent |-> 10]

SteepThresholds ==
  [MaxConnectionsPercent |-> 92, MinCacheHitRatio |-> 88, MaxCPUPercent |-> 95,
   MaxMemoryPercent |-> 85, MaxReplicationLagMs |-> 20000,
   MaxSlowQueryTimeMs |-> 1000, MaxTableBloatPercent |-> 35]

AnalyzedThresholds == {DefaultThresholds, CustomThresholds, SteepThresholds}

\* the values drawn for each field of a snapshot
SnapshotValues ==
  [ClusterID |-> {1}, ConnectionsActive |-> {80, 85, 90, 95}, ConnectionsTotal |-> {0, 100},
   TransactionsPerSec |-> {0}, CacheHitRatio |-> {82, 88, 94, 95}, DiskIORead |-> {0},
   DiskIOWrite |-> {0}, CPUUsage |-> {80, 96}, MemoryUsage |-> {85, 86},
   LockWaits |-> {100, 101}, DeadlockCount |-> {0, 1}, ReplicationLag |-> {10000, 30000},
   TableBloat |-> {20, 40}]

AnalyzedSnapshots ==
  [ClusterID : SnapshotValues.ClusterID,
   ConnectionsActive : SnapshotValues.ConnectionsActive,
   ConnectionsTotal : SnapshotValues.ConnectionsTotal,
   TransactionsPerSec : SnapshotValues.TransactionsPerSec,
   CacheHitRatio : SnapshotValues.CacheHitRatio,
   DiskIORead : SnapshotValues.DiskIORead,
   DiskIOWrite : SnapshotValues.DiskIOWrite,
   CPUUsage : SnapshotValues.CPUUsage,
   MemoryUsage : SnapshotValues.MemoryUsage,
   LockWaits : SnapshotValues.LockWaits,
   DeadlockCount : SnapshotValues.DeadlockCount,
   ReplicationLag : SnapshotValues.ReplicationLag,
   TableBloat : SnapshotValues.TableBloat]

InitAnalyze ==
  /\ pools = [id \in Ids |-> NoPool]
  /\ poolsClosed = {}
  /\ nextPool = [id \in Ids |-> 0]
  /\ muWriter = NoProc
  /\ muReaders = {}
  /\ pc = [p \in Procs |-> "idle"]
  /\ op = [p \in Procs |-> NoOp]
  /\ loc = [p \in Procs |-> NoLoc]
  /\ ret = NoRet
  /\ faults = {}
  /\ load = MaxLoad
  /\ mc = McIdle
  /\ cc = CcIdle
  /\ clusters = [id \in Ids |-> NoCluster]
  /\ ticks = {}
  /\ start = [c \in Collectors |-> "off"]
  /\ ctxDone = FALSE
  /\ timer = {}
  /\ fired = 0
  /\ hung = {}
  /\ boot = NoBoot
  /\ api = NoApi
  /\ \E t \in AnalyzedThresholds, m \in AnalyzedSnapshots :
       pa = [NoAnalysis EXCEPT !.pc = "called", !.thresholds = t, !.metrics = m]

NextAnalyze ==
  \/ AnalyzeMetricsCall
  \/ AnalyzeMetricsAgain

SpecAnalyze == InitAnalyze /\ [][NextAnalyze]_vars

\* ---- AddCluster with every sizing of a cluster's configuration: each
\* field negative, unset, or a value of its own, up to the largest ----
ConnectionConfigs ==
  [MaxConnections : {-1, 0, 50, MaxInt32}, MinConnections : {-1, 0, 10},
   ConnMaxLifetime : {-1, 0, 7200}, ConnMaxIdleTime : {-1, 0, 600}]

NextSizing ==
  \/ \E p \in Procs, id \in Ids, config \in ConnectionConfigs : AddClusterWith(p, id, config)
  \/ \E p \in Procs : AddClusterPing(p)

SpecSizing == Init /\ [][NextSizing]_vars

\* ---- a caller of RegisterCluster, UnregisterCluster and GetCluster, call
\* after call, with no collector started: any of the ids has a pool or
\* none, an entry or none ----
InitApi ==
  /\ \E S \in SUBSET Ids :
       /\ pools = [id \in Ids |-> IF id \in S THEN id ELSE NoPool]
       /\ nextPool = [id \in Ids |-> IF id \in S THEN 1 ELSE 0]
  /\ \E E \in SUBSET Ids :
       clusters = [id \in Ids |-> IF id \in E THEN CollectedEntry ELSE NoCluster]
  /\ poolsClosed = {}
  /\ muWriter = NoProc
  /\ muReaders = {}
  /\ pc = [p \in Procs |-> "idle"]
  /\ op = [p \in Procs |-> NoOp]
  /\ loc = [p \in Procs |-> NoLoc]
  /\ ret = NoRet
  /\ faults = {}
  /\ load = MaxLoad
  /\ mc = McIdle
  /\ cc = CcIdle
  /\ ticks = {}
  /\ start = [c \in Collectors |-> "off"]
  /\ ctxDone = FALSE
  /\ timer = {}
  /\ fired = 0
  /\ hung = {}
  /\ boot = NoBoot
  /\ api = NoApi
  /\ pa = NoAnalysis

NextApi ==
  \/ \E id \in Ids : GetClusterBegin(id)
  \/ GetClusterEnd
  \/ \E id \in Ids : RegisterClusterBegin(id)
  \/ RegisterClusterEnd
  \/ \E id \in Ids : UnregisterClusterBegin(id)
  \/ UnregisterClusterEnd
  \/ \E id \in Ids, kind \in {"GetCluster", "RegisterCluster", "UnregisterCluster"} :
       NextCall(kind, id)

SpecApi == InitApi /\ [][NextApi]_vars

\* ---- a request for the health of a cluster: GetMetricsSnapshot of either
\* source of the MetricsCollector, on a registry as startup left it, any
\* of the queries failing; then the analysis of the snapshot ----
InitPipeline ==
  /\ \E S \in SUBSET Ids :
       /\ pools = [id \in Ids |-> IF id \in S THEN id ELSE NoPool]
       /\ nextPool = [id \in Ids |-> IF id \in S THEN 1 ELSE 0]
  /\ poolsClosed = {}
  /\ muWriter = NoProc
  /\ muReaders = {}
  /\ pc = [p \in Procs |-> "idle"]
  /\ op = [p \in Procs |-> NoOp]
  /\ loc = [p \in Procs |-> NoLoc]
  /\ ret = NoRet
  /\ faults = QueryNames
  /\ load \in 1..MaxLoad
  /\ mc = McIdle
  /\ cc = CcIdle
  /\ clusters = [id \in Ids |-> NoCluster]
  /\ ticks = {}
  /\ start = [c \in Collectors |-> "off"]
  /\ ctxDone = FALSE
  /\ timer = {}
  /\ fired = 0
  /\ hung = {}
  /\ boot = NoBoot
  /\ api = NoApi
  /\ pa = NoAnalysis

NextPipeline ==
  \/ \E id \in Ids : mc.mode = "none" /\ GetMetricsSnapshot(id)
  \/ \E id \in Ids : mc.mode = "none" /\ GetMetricsSnapshotPlaceholder(id)
  \/ CollectClusterMetricsQuery
  \/ GetClusterHealth

SpecPipeline == InitPipeline /\ [][NextPipeline]_vars

\* ---- the health status: of the snapshot that was analyzed, after the
\* alerts were acknowledged or resolved or left as they were; or a new
\* health status to which a caller adds checks ----
Quiet ==
  /\ pools = [id \in Ids |-> NoPool]
  /\ poolsClosed = {}
  /\ nextPool = [id \in Ids |-> 0]
  /\ muWriter = NoProc
  /\ muReaders = {}
  /\ pc = [p \in Procs |-> "idle"]
  /\ op = [p \in Procs |-> NoOp]
  /\ loc = [p \in Procs |-> NoLoc]
  /\ ret = NoRet
  /\ faults = {}
  /\ load = MaxLoad
  /\ mc = McIdle
  /\ cc = CcIdle
  /\ clusters = [id \in Ids |-> NoCluster]
  /\ ticks = {}
  /\ start = [c \in Collectors |-> "off"]
  /\ ctxDone = FALSE
  /\ timer = {}
  /\ fired = 0
  /\ hung = {}
  /\ boot = NoBoot
  /\ api = NoApi

HealthSnapshots ==
  [ClusterID : {1}, ConnectionsActive : {80, 96}, ConnectionsTotal : {0, 100},
   TransactionsPerSec : {0}, CacheHitRatio : {82, 95}, DiskIORead : {0},
   DiskIOWrite : {0}, CPUUsage : {80, 96}, MemoryUsage : {85, 96},
   LockWaits : {100}, DeadlockCount : {0}, ReplicationLag : {0},
   TableBloat : {10, 40}]

InitHealth ==
  /\ Quiet
  /\ \/ \E t \in {DefaultThresholds, CustomThresholds},
           m \in HealthSnapshots \cup {NewMetrics(1)} :
          pa = [NoAnalysis EXCEPT !.pc = "called", !.thresholds = t, !.metrics = m,
                                  !.now = MaxClock]
     \/ pa = [NoAnalysis EXCEPT !.pc = "checks", !.health = NewHealthStatus(1)]

NextHealth ==
  \/ AnalyzeMetricsCall
  \/ \E i \in 1..Len(pa.alerts) : AcknowledgeCall(i)
  \/ \E i \in 1..Len(pa.alerts) : ResolveCall(i)
  \/ GenerateHealthStatusCall
  \/ \E status \in {"ok", "warning"} : AddCheckCall(status)

SpecHealth == InitHealth /\ [][NextHealth]_vars

\* ---- AnalyzeQueryPerformance on statements around the limits: execution
\* times at and past 1, 5 and 10 times the slow-query threshold, temp
\* blocks at and past their limit ----
SlowQueryThresholds == [DefaultThresholds EXCEPT !.MaxSlowQueryTimeMs = 200]

AnalyzedQueries ==
  [ClusterID : {1},
   ExecutionTime : {0, 200, 201, 1000, 1001, 2000, 2001, 5000, 5001, 10000, 10001},
   TempBlocksRead : {0, 10000, 10001}, TempBlocksWritten : {0, 10000, 10001}]

InitQuery ==
  /\ Quiet
  /\ \E t \in {DefaultThresholds, SlowQueryThresholds}, qm \in AnalyzedQueries :
       pa = [NoAnalysis EXCEPT !.pc = "query_called", !.thresholds = t, !.qm = qm]

NextQuery == AnalyzeQueryPerformanceCall

SpecQuery == InitQuery /\ [][NextQuery]_vars

\* ==== the registry: properties ====

\* positions inside the exclusive and the shared critical section of cp.mu
InWriteCS(p) == pc[p] \in {"add_ping", "rm_close", "close_all"}
InReadCS(p) == pc[p] \in {"gp_locked", "list_locked"}

\* a network operation against an endpoint is in progress: the probe of
\* AddCluster or HealthCheck, the teardown of RemoveCluster or Close
InNetworkOp(p) == pc[p] \in {"add_ping", "hc_ping", "rm_close", "close_all"}

\* caller p takes the step: it returns from a call or moves inside one
Acts(p) == ret'.proc = p \/ pc'[p] # pc[p]

\* C1: AddCluster(id) on a registered id returns AlreadyExists at once and
\* leaves the map, the registered handle and the set of closed pools as
\* they were.
C1_DuplicateAddRejected ==
  [][\A p \in Procs, id \in Ids :
       (Acts(p) /\ pools[id] # NoPool /\ AddClusterBegin(p, id)) =>
         /\ pc'[p] = "idle"
         /\ ret'.proc = p /\ ret'.kind = "AddCluster" /\ ret'.id = id
         /\ ret'.err = "AlreadyExists"
         /\ pools' = pools
         /\ poolsClosed' = poolsClosed
         /\ pools'[id] \notin poolsClosed']_vars

C1_Witness ==
  /\ ret.kind = "AddCluster" /\ ret.err = "AlreadyExists"
  /\ pools[ret.id] # NoPool
  /\ pools[ret.id] \notin poolsClosed

\* C2: an AddCluster(id) that fails in ParseConfig, NewWithConfig or Ping
\* returns an error and leaves the map as before the call, without id; the
\* pool built for a failed Ping is closed.
C2_FailedAddLeavesRegistry ==
  [][\A p \in Procs : Acts(p) =>
       /\ \A id \in Ids :
            (AddClusterBegin(p, id) /\ pools[id] = NoPool /\ pc'[p] = "idle") =>
              /\ ret'.proc = p /\ ret'.kind = "AddCluster" /\ ret'.id = id
              /\ ret'.err \in {"ParseFailed", "CreateFailed"}
              /\ pools' = pools /\ id \notin Registered'
              /\ nextPool' = nextPool
       /\ (AddClusterPing(p) /\ ret'.err # "nil") =>
              /\ ret'.proc = p /\ ret'.kind = "AddCluster" /\ ret'.id = op[p].id
              /\ ret'.err = "PingFailed"
              /\ loc[p].pool \in poolsClosed'
              /\ pools' = pools /\ op[p].id \notin Registered'
              /\ \A id \in Ids : pools'[id] # loc[p].pool]_vars

C2_Witness ==
  /\ ret.kind = "AddCluster" /\ ret.err = "PingFailed"
  /\ pools[ret.id] = NoPool
  /\ Built # {} /\ Built \subseteq poolsClosed

\* C3: a goroutine inside the exclusive section of cp.mu is alone in any
\* section of cp.mu; readers may share.
C3_WriterExcludesAll ==
  /\ \A p, q \in Procs : (InWriteCS(p) /\ p # q) => (~InWriteCS(q) /\ ~InReadCS(q))
  /\ \A p \in Procs : InWriteCS(p) <=> muWriter = p
  /\ \A p \in Procs : InReadCS(p) <=> p \in muReaders

C3_Witness ==
  \E p, q \in Procs : p # q /\ InReadCS(p) /\ InReadCS(q)

\* C4: no probe and no pool teardown runs while cp.mu is held exclusively.
C4_NoNetworkUnderLock ==
  \A p \in Procs : InNetworkOp(p) => muWriter # p

\* C5: the pool of a pending AddCluster(id) is built under the exclusive
\* lock for an id without entry, so an entry is never overwritten; every
\* handle ever built is closed, or registered under exactly one id, or that
\* of the one pending AddCluster, and never two of these.
C5_OnePoolPerId ==
  /\ \A p \in Procs : pc[p] = "add_ping" =>
       /\ muWriter = p
       /\ pools[op[p].id] = NoPool
       /\ \A q \in Procs : (q # p /\ pc[q] = "add_ping") => loc[q].pool # loc[p].pool
  /\ \A h \in Built :
       Cardinality({id \in Ids : pools[id] = h})
         + Cardinality({p \in Procs : pc[p] = "add_ping" /\ loc[p].pool = h})
         + (IF h \in poolsClosed THEN 1 ELSE 0) = 1
  /\ (ret.kind = "AddCluster" /\ ret.err = "nil") =>
       (ret.pool \in poolsClosed \/ pools[ret.id] = ret.pool)

C5_Witness ==
  /\ ret.kind = "AddCluster" /\ ret.err = "AlreadyExists"
  /\ Built = {pools[ret.id]} /\ poolsClosed = {}

\* C6: RemoveCluster(id) without entry returns NotFound and changes nothing;
\* with an entry it closes that pool and deletes that entry only; GetPool,
\* HealthCheck and RemoveCluster on an id without entry return NotFound.
C6_RemoveCluster ==
  [][\A p \in Procs : Acts(p) =>
       /\ \A id \in Ids :
            (RemoveClusterBegin(p, id) /\ pools[id] = NoPool) =>
              /\ ret'.proc = p /\ ret'.kind = "RemoveCluster" /\ ret'.id = id
              /\ ret'.err = "NotFound"
              /\ UNCHANGED <<pools, poolsClosed>>
       /\ RemoveClusterEnd(p) =>
              /\ ret' = [NoRet EXCEPT !.proc = p, !.kind = "RemoveCluster", !.id = op[p].id]
              /\ pools[op[p].id] \in poolsClosed'
              /\ poolsClosed' = poolsClosed \cup {pools[op[p].id]}
              /\ pools'[op[p].id] = NoPool
              /\ \A id \in Ids \ {op[p].id} : pools'[id] = pools[id]
       /\ \A kind \in {"GetPool", "HealthCheck"} :
            (GetPoolEnd(p, kind) /\ pools[op[p].id] = NoPool) =>
              /\ ret'.proc = p /\ ret'.kind = kind /\ ret'.id = op[p].id
              /\ ret'.err = "NotFound"]_vars

C6_Witness ==
  /\ ret.kind = "GetPool" /\ ret.err = "NotFound"
  /\ Built # {} /\ pools[ret.id] = NoPool
  /\ \E h \in poolsClosed : TRUE

\* C7: Close closes every registered pool and leaves an empty map; on an
\* empty map GetAllClusters returns the empty list and GetPool, HealthCheck,
\* GetPoolStats and RemoveCluster return NotFound.
C7_Close ==
  [][\A p \in Procs : Acts(p) =>
       /\ CloseEnd(p) =>
              /\ Registered' = {}
              /\ \A id \in Registered : pools[id] \in poolsClosed'
       /\ (GetAllClustersEnd(p) /\ Registered = {}) => ret'.ids = <<>>
       /\ \A kind \in GetPoolCallers : (GetPoolEnd(p, kind) /\ Registered = {}) =>
              (ret'.proc = p /\ ret'.kind = kind /\ ret'.err = "NotFound")
       /\ \A id \in Ids : (RemoveClusterBegin(p, id) /\ Registered = {}) =>
              (ret'.proc = p /\ ret'.kind = "RemoveCluster" /\ ret'.err = "NotFound")]_vars

C7_Witness ==
  /\ ret.kind = "GetPoolStats" /\ ret.err = "NotFound"
  /\ Registered = {}
  /\ Cardinality(poolsClosed) >= 2

\* C8: HealthCheck(id) returns NotFound without a probe when id has no
\* entry, otherwise the outcome of the probe; no step of a HealthCheck
\* changes the map or closes a pool.
C8_HealthCheckReadOnly ==
  [][\A p \in Procs : Acts(p) =>
       /\ \A id \in Ids : GetPoolBegin(p, id) =>
              UNCHANGED <<pools, poolsClosed, nextPool>>
       /\ GetPoolEnd(p, "HealthCheck") =>
              /\ UNCHANGED <<pools, poolsClosed, nextPool>>
              /\ IF loc[p].pool = NoPool
                   THEN pc'[p] = "idle" /\ ret'.proc = p /\ ret'.err = "NotFound"
                   ELSE pc'[p] = "hc_ping" /\ ret' = NoRet
       /\ HealthCheckPing(p) =>
              /\ UNCHANGED <<pools, poolsClosed, nextPool>>
              /\ loc[p].pool # NoPool
              /\ ret'.proc = p /\ ret'.kind = "HealthCheck" /\ ret'.id = op[p].id
              /\ ret'.err \in {"nil", "PingFailed"}]_vars

C8_Witness ==
  /\ ret.kind = "HealthCheck" /\ ret.err = "PingFailed"
  /\ pools[ret.id] # NoPool
  /\ pools[ret.id] \notin poolsClosed

\* ==== the metrics collector: properties ====

\* the snapshot a collection without any failure returns
FullSample(id) ==
  LET F[i \in 0..Len(Queries)] ==
        IF i = 0 THEN NewMetrics(id) ELSE Scanned(F[i - 1], Queries[i], Row(Queries[i]))
  IN F[Len(Queries)]

\* the snapshot fields a query fills
FieldsOfQuery(q) ==
  CASE q = "connection" -> {"ConnectionsActive", "ConnectionsTotal"}
    [] q = "cache" -> {"CacheHitRatio"}
    [] q = "transaction" -> {"TransactionsPerSec"}
    [] q = "lock_waits" -> {"LockWaits"}
    [] q = "deadlocks" -> {"DeadlockCount"}
    [] q = "replication" -> {"ReplicationLag"}
    [] q = "bloat" -> {"TableBloat"}
    [] q = "disk_io" -> {"DiskIORead", "DiskIOWrite"}

\* the snapshot fields of a sub-collection
FieldsOfSub(s) == UNION {FieldsOfQuery(q) : q \in {r \in QueryNames : SubOf(r) = s}}

\* the sub-collections called, in order, given the queries issued
SubsCalled(issued) ==
  LET first == SelectSeq(issued, LAMBDA q : q # "deadlocks")
  IN [i \in 1..Len(first) |-> SubOf(first[i])]

\* CollectClusterMetrics has just returned a snapshot
Collected == mc.out.kind = "CollectClusterMetrics" /\ mc.out.err = "nil"

TickOrder(c) ==
  c.pc # "idle" =>
    /\ c.idx \in 1..(Len(c.ids) + 1)
    /\ \A i, j \in 1..Len(c.ids) : i # j => c.ids[i] # c.ids[j]
    /\ c.attempted = SubSeq(c.ids, 1, IF c.pc = "loop" THEN c.idx - 1 ELSE c.idx)
    /\ Len(c.results) = c.idx - 1

\* a step that takes a collector from c to d: the tick starts with a copy
\* of the registered ids, the copy stays as taken, a visit that returns
\* (with or without error) hands over to the next id, and the tick ends
\* only after every id of the copy was attempted
TickStep(c, d) ==
  /\ (c.pc = "idle" /\ d.pc # "idle") =>
        /\ d.ids \in Perms(Registered)
        /\ d.attempted = <<>> /\ d.idx = 1
  /\ (c.pc # "idle" /\ d.pc # "idle") => d.ids = c.ids
  /\ (c.pc # "idle" /\ Len(d.results) > Len(c.results)) =>
        /\ d.pc = "loop" /\ d.idx = c.idx + 1
        /\ Len(d.results) = Len(c.results) + 1
  /\ (c.pc # "idle" /\ d.pc = "idle") =>
        /\ c.attempted = c.ids /\ Len(c.results) = Len(c.ids)
        /\ d.attempted = c.ids /\ d.ids = c.ids

\* C10: a tick of either collector takes one copy of the registered ids and
\* attempts every id of the copy once, in the copy's order; a visit that
\* returns an error (NotFound for an id removed after the copy, a failed
\* health check) is followed by the next id, and no registry mutation
\* changes the copy.
C10_TickVisitsCopy ==
  [][/\ TickOrder(mc') /\ TickOrder(cc')
     /\ TickStep(mc, mc') /\ TickStep(cc, cc')]_vars

C10_Witness ==
  /\ ticks = {CC} /\ cc.pc = "idle"
  /\ Len(cc.ids) >= 2 /\ cc.attempted = cc.ids
  /\ cc.results[1] # "nil"
  /\ cc.results[Len(cc.ids)] = "nil"
  /\ pools[cc.ids[1]] = NoPool

\* ==== the Start loops: properties ====

\* C11: every network call of a tick carries a bounded timeout of its own,
\* so no call of a tick waits on an endpoint that never answers with
\* nothing but the shutdown to end the wait (the clusters after it in the
\* copy would not be visited).
C11_EveryCallTimesOut ==
  ~(mc.mode = "tick" /\ mc.pc = "query" /\ QueryWaits)

\* a collector leaves the select of its Start loop for a new tick
BeginsTick(c, d, s) == s = "select" /\ c.pc = "idle" /\ d.pc = "loop"

\* C12: once the context of a collector is cancelled, the collector begins
\* no new tick from its select, a pending firing of its ticker or not.
C12_NoTickAfterShutdown ==
  [][(BeginsTick(mc, mc', start[MC]) \/ BeginsTick(cc, cc', start[CC]))
       => ~ctxDone]_vars

\* C13: a query of a tick in progress fails only when the endpoint or the
\* pool fails it: on an answering endpoint with an open pool and no failing
\* statistics view, every query of the tick succeeds, before and after a
\* shutdown signal.
C13_ShutdownFailsNoQuery ==
  [][(/\ mc.mode = "tick" /\ mc.pc = "query"
      /\ mc.id \notin hung /\ mc.pool \notin poolsClosed
      /\ Queries[mc.q] \notin faults)
       => mc'.failedQ = mc.failedQ]_vars

\* ==== the ClusterCollector's entries: properties ====

\* C14: when the health check of a visit fails (no pool, or the ping), the
\* entry the visit works on is marked unhealthy, keeps every key of its
\* Configuration, and is still in the map for GetCluster; the visit
\* returns the error with none of the five sub-collections called, which
\* run only after a ping that succeeded.
C14_FailedHealthCheckKeepsConfiguration ==
  [][/\ (cc.pc \in {"hc", "hc_ping"} /\ cc'.pc = "loop" /\ cc.mine) =>
          /\ clusters[cc.id] # NoCluster
          /\ clusters'[cc.id] # NoCluster
          /\ clusters'[cc.id].Status = "unhealthy"
          /\ clusters'[cc.id].Configuration = clusters[cc.id].Configuration
          /\ cc'.out.err # "nil" /\ cc'.idx = cc.idx + 1
     /\ (cc'.pc = "sub" /\ cc.pc # "sub") =>
          (cc.pc = "hc_ping" /\ cc.pool \notin poolsClosed)]_vars

C14_Witness ==
  /\ api = NoApi
  /\ cc.pc = "loop" /\ cc.out.err = "PingFailed"
  /\ clusters[cc.out.id] = [CollectedEntry EXCEPT !.Status = "unhealthy"]

\* C15: no write to cc.clusters or to one of its entries overlaps another
\* access: no call of the API goroutine is raced by the collector.
C15_NoRacingAccess == ~api.raced

\* C16: the collector creates an entry only with the first collection that
\* succeeds: outside a health check in progress, an entry of the map that
\* no caller registered has passed a health check (it is healthy, or holds
\* the keys collected after one).
C16_EntryOnlyAfterSuccess ==
  \A id \in Ids :
    (clusters[id] # NoCluster /\ ~(cc.id = id /\ cc.pc \in {"hc", "hc_ping"})) =>
      (clusters[id].Status = "healthy" \/ clusters[id].Configuration # {})

\* C17: an entry leaves the map only when UnregisterCluster of its id
\* returns, whatever the ticks, the health checks, RemoveCluster and Close
\* do; and a GetCluster whose lookup no write overlapped returns the entry
\* of the id when the map holds one and NotFound when it holds none.
C17_EntryPersists ==
  [][/\ \A id \in Ids :
          (clusters[id] # NoCluster /\ clusters'[id] = NoCluster) =>
            (api.kind = "UnregisterCluster" /\ api.id = id /\ api'.kind = "returned")
     /\ (api.kind = "GetCluster" /\ api'.kind = "returned" /\ ~api.raced) =>
          /\ ret'.cluster = clusters[api.id]
          /\ ret'.err = IF clusters[api.id] = NoCluster THEN "NotFound" ELSE "nil"]_vars

C17_Witness ==
  /\ ret.kind = "GetCluster" /\ ret.err = "nil" /\ ~api.raced
  /\ pools[ret.id] = NoPool
  /\ ret.cluster.Status = "unhealthy"
  /\ cc.pc = "idle" /\ ticks = {CC}

\* C18: no step of a collector changes the registry, and a Start loop ends
\* only by the cancelled context: every tick copies all the registered ids
\* (a cluster that failed before included) and visits each of them, a
\* failed visit handing over to the next id; a health check that succeeds
\* marks the cluster healthy, whatever its status was.
C18_FailedClusterRetried ==
  [][/\ (mc' # mc \/ cc' # cc) => (pools' = pools /\ poolsClosed' = poolsClosed)
     /\ \A c \in Collectors :
          (start[c] = "select" /\ start'[c] # "select") => ctxDone
     /\ TickStep(mc, mc') /\ TickStep(cc, cc')
     /\ (cc.pc = "hc_ping" /\ cc'.pc = "sub") =>
          clusters'[cc.id].Status = "healthy"]_vars

\* the second collection finds healthy a cluster that the initial one
\* left without a key, i.e. whose health check had failed
C18_Witness ==
  /\ ~ctxDone /\ start[CC] = "select"
  /\ fired = 1 /\ CC \notin timer
  /\ cc.pc = "sub" /\ cc.k = 1
  /\ clusters[cc.id] = [Status |-> "healthy", Configuration |-> {}]

\* ==== GetMetricsSnapshot: properties ====

\* C19: GetMetricsSnapshot(id) of a registered id returns the snapshot that
\* the collection of this call produced: every field of a sub-collection
\* that reported no failure holds the value sampled during the call; for
\* an id without a pool it returns the error and no snapshot.
C19_SnapshotIsTheCollection ==
  (mc.pc = "idle" /\ mc.mode = "snapshot") =>
    /\ mc.out.err = "nil" <=> mc.out.metrics # NoMetrics
    /\ (mc.out.kind = "GetMetricsSnapshot" /\ mc.out.err = "nil") =>
          mc.out.metrics = mc.metrics
    /\ (mc.out.kind = "CollectClusterMetrics" /\ mc.out.err = "nil") =>
          \A i \in 1..Len(SubCollections) : \A f \in FieldsOfSub(SubCollections[i]) :
            SubCollections[i] \notin mc.warned => mc.out.metrics[f] = FullSample(mc.id)[f]

\* ==== AnalyzeMetrics: properties ====

\* the metrics of the alerts, in the order of the checks
AlertOrder ==
  <<"connections_active", "cache_hit_ratio", "cpu_usage", "memory_usage",
    "replication_lag", "lock_waits", "deadlock_count", "table_bloat">>

\* the condition of the check of a metric, on the fields the check reads
AlertCondition(metric, t, m) ==
  CASE metric = "connections_active" ->
         m.ConnectionsTotal > 0
           /\ m.ConnectionsActive * 100 > t.MaxConnectionsPercent * m.ConnectionsTotal
    [] metric = "cache_hit_ratio" -> m.CacheHitRatio < t.MinCacheHitRatio
    [] metric = "cpu_usage" -> m.CPUUsage > t.MaxCPUPercent
    [] metric = "memory_usage" -> m.MemoryUsage > t.MaxMemoryPercent
    [] metric = "replication_lag" -> m.ReplicationLag > t.MaxReplicationLagMs
    [] metric = "lock_waits" -> m.LockWaits > 100
    [] metric = "deadlock_count" -> m.DeadlockCount > 0
    [] metric = "table_bloat" -> m.TableBloat > t.MaxTableBloatPercent

\* C20: AnalyzeMetrics returns at most eight alerts, one at most per
\* metric, in the order of the checks whatever their severities; the
\* alert of a metric is there exactly when the condition of its check
\* holds, which reads the fields of that check only.
C20_AlertsInCheckOrder ==
  pa.pc = "returned" =>
    /\ Len(pa.alerts) <= 8
    /\ [i \in 1..Len(pa.alerts) |-> pa.alerts[i].Metric]
         = SelectSeq(AlertOrder, LAMBDA x : AlertCondition(x, pa.thresholds, pa.metrics))

C20_Witness ==
  /\ pa.pc = "returned"
  /\ Len(pa.alerts) = 8
  /\ pa.alerts[1].Severity = "high"
  /\ pa.alerts[3].Severity = "critical"
  /\ pa.alerts[6].Severity = "medium"

\* the metrics for which a higher value is worse, with the second and the
\* third limit of each; the first limit is the analyzer's threshold
HigherIsWorse ==
  {"connections_active", "cpu_usage", "memory_usage", "replication_lag", "table_bloat"}

Tiers(metric, t) ==
  CASE metric = "connections_active" -> <<t.MaxConnectionsPercent, 90, 95>>
    [] metric = "cpu_usage" -> <<t.MaxCPUPercent, 90, 95>>
    [] metric = "memory_usage" -> <<t.MaxMemoryPercent, 90, 95>>
    [] metric = "replication_lag" -> <<t.MaxReplicationLagMs, 30000, 60000>>
    [] metric = "table_bloat" -> <<t.MaxTableBloatPercent, 30, 40>>

\* the value of a metric in a snapshot as a fraction: numerator, denominator
Observed(metric, m) ==
  CASE metric = "connections_active" -> <<m.ConnectionsActive * 100, m.ConnectionsTotal>>
    [] metric = "cpu_usage" -> <<m.CPUUsage, 1>>
    [] metric = "memory_usage" -> <<m.MemoryUsage, 1>>
    [] metric = "replication_lag" -> <<m.ReplicationLag, 1>>
    [] metric = "table_bloat" -> <<m.TableBloat, 1>>

AtLeast(v, limit) == v[1] >= limit * v[2]

\* C21: the alert of a metric for which higher is worse is medium when the
\* value is above the warning limit and below the high one, high when it is
\* at least the high limit and below the critical one, critical when it is
\* at least the critical limit; 90 active connections of 100 under the
\* default thresholds give exactly one connection alert, and it is high.
C21_SeverityTiers ==
  pa.pc = "returned" =>
    /\ \A i \in 1..Len(pa.alerts) :
         LET a == pa.alerts[i]
             v == Observed(a.Metric, pa.metrics)
             l == Tiers(a.Metric, pa.thresholds)
         IN a.Metric \in HigherIsWorse =>
              /\ ~AtLeast(v, l[2]) => a.Severity = "medium"
              /\ AtLeast(v, l[2]) /\ ~AtLeast(v, l[3]) => a.Severity = "high"
              /\ AtLeast(v, l[3]) => a.Severity = "critical"
    /\ ( /\ pa.thresholds = DefaultThresholds
         /\ pa.metrics.ConnectionsActive = 90
         /\ pa.metrics.ConnectionsTotal = 100 )
       => /\ Len(SelectSeq(pa.alerts, LAMBDA a : a.Type = "connection")) = 1
          /\ pa.alerts[1].Metric = "connections_active"
          /\ pa.alerts[1].Severity = "high"

C21_Witness ==
  /\ pa.pc = "returned"
  /\ pa.thresholds = DefaultThresholds
  /\ pa.metrics.ConnectionsActive = 90
  /\ pa.metrics.ConnectionsTotal = 100
  /\ Len(pa.alerts) >= 2
  /\ pa.alerts[1].Severity = "high"
  /\ \E i \in 2..Len(pa.alerts) : pa.alerts[i].Severity = "medium"

\* C22: under the default thresholds a snapshot with a cache-hit ratio of 82
\* gets a cache-hit-ratio alert whose severity is high.
C22_CacheRatioAlertHigh ==
  ( /\ pa.pc = "returned"
    /\ pa.thresholds = DefaultThresholds
    /\ pa.metrics.CacheHitRatio = 82 )
  => \E i \in 1..Len(pa.alerts) :
       /\ pa.alerts[i].Metric = "cache_hit_ratio"
       /\ pa.alerts[i].Severity = "high"

\* the statuses of the checks of a health status, in their order
Statuses(hs) == [i \in 1..Len(hs.Checks) |-> hs.Checks[i].Status]

C24_CountsOverActiveAlerts ==
  pa.pc = "health" =>
    LET given == {i \in 1..Len(pa.alerts) : pa.alerts[i].Status = "active"}
    IN /\ pa.health.ActiveAlerts = Cardinality(given)
       /\ pa.health.CriticalAlerts
            = Cardinality({i \in given : pa.alerts[i].Severity = "critical"})
       /\ pa.health.CriticalAlerts <= pa.health.ActiveAlerts
       /\ pa.health.ActiveAlerts <= Len(pa.alerts)

C24_Witness ==
  /\ pa.pc = "health"
  /\ Len(pa.alerts) = 4
  /\ pa.alerts[1].Status = "acknowledged" /\ pa.alerts[1].Severity = "critical"
  /\ pa.alerts[2].Status = "resolved"
  /\ pa.alerts[3].Status = "active" /\ pa.alerts[3].Severity = "medium"
  /\ pa.alerts[4].Status = "active" /\ pa.alerts[4].Severity = "critical"
  /\ pa.health.ActiveAlerts = 2
  /\ pa.health.CriticalAlerts = 1

\* C25: a second AnalyzeMetrics on the same snapshot with the same
\* thresholds, whenever it is made, returns a list equal to the first in
\* length, in order and in every field of every alert.
C25_SecondCallReturnsTheSame ==
  pa.pc = "again" => pa.again = pa.alerts

\* the limit that the check of a metric compares the value against
ComparedAgainst(metric, t) ==
  CASE metric \in HigherIsWorse -> Tiers(metric, t)[1]
    [] metric = "cache_hit_ratio" -> t.MinCacheHitRatio
    [] metric = "lock_waits" -> 100
    [] metric = "deadlock_count" -> 0

\* the value that the check of a metric observes in a snapshot
ObservedValue(metric, m) ==
  CASE metric = "connections_active" -> (m.ConnectionsActive * 100) \div m.ConnectionsTotal
    [] metric = "cache_hit_ratio" -> m.CacheHitRatio
    [] metric = "cpu_usage" -> m.CPUUsage
    [] metric = "memory_usage" -> m.MemoryUsage
    [] metric = "replication_lag" -> m.ReplicationLag
    [] metric = "lock_waits" -> m.LockWaits
    [] metric = "deadlock_count" -> m.DeadlockCount
    [] metric = "table_bloat" -> m.TableBloat

\* C26: every alert of AnalyzeMetrics carries the name of its metric, the
\* threshold its check compared against (the configured one, 100 for lock
\* waits), the observed value and at least one suggested action.
C26_AlertCarriesItsCheck ==
  pa.pc = "returned" =>
    \A i \in 1..Len(pa.alerts) :
      LET a == pa.alerts[i]
      IN /\ a.Metric \in {AlertOrder[k] : k \in 1..Len(AlertOrder)}
         /\ a.Threshold = ComparedAgainst(a.Metric, pa.thresholds)
         /\ a.CurrentValue = ObservedValue(a.Metric, pa.metrics)
         /\ Len(a.Actions) > 0

\* the lifecycle statuses in their order
Rank(status) ==
  CASE status = "active" -> 1 [] status = "acknowledged" -> 2 [] status = "resolved" -> 3

\* C27: a new alert is active, and no Acknowledge or Resolve moves the
\* lifecycle status of an alert backwards along active, acknowledged,
\* resolved.
C27_LifecycleOnlyForward ==
  [][ /\ pa.pc = "called" /\ pa'.pc = "returned"
        => \A i \in 1..Len(pa'.alerts) : pa'.alerts[i].Status = "active"
      /\ pa.pc = "returned" /\ pa'.pc = "returned"
        => \A i \in 1..Len(pa.alerts) :
             Rank(pa'.alerts[i].Status) >= Rank(pa.alerts[i].Status) ]_vars

\* C28: AnalyzeQueryPerformance returns a slow-query alert exactly when the
\* execution time is above the slow-query threshold T, medium up to 5 T,
\* high above 5 T up to 10 T, critical above 10 T; it returns a temp-block
\* alert, medium, exactly when the temp blocks read or written are above
\* 10000; each is decided without the other and the slow-query alert
\* comes first.
C28_QueryAlerts ==
  pa.pc = "query_returned" =>
    LET e == pa.qm.ExecutionTime
        T == pa.thresholds.MaxSlowQueryTimeMs
        slow == e > T
        temp == pa.qm.TempBlocksRead > 10000 \/ pa.qm.TempBlocksWritten > 10000
        tier == IF e > 10 * T THEN "critical" ELSE IF e > 5 * T THEN "high" ELSE "medium"
    IN /\ [i \in 1..Len(pa.alerts) |-> <<pa.alerts[i].Type, pa.alerts[i].Severity>>]
            = (IF slow THEN << <<"query", tier>> >> ELSE <<>>)
                \o (IF temp THEN << <<"performance", "medium">> >> ELSE <<>>)
       /\ slow => pa.alerts[1].Metric = "execution_time"

C28_Witness ==
  /\ pa.pc = "query_returned"
  /\ pa.qm.ExecutionTime = 5001
  /\ pa.qm.TempBlocksRead = 10000
  /\ pa.qm.TempBlocksWritten = 10001
  /\ Len(pa.alerts) = 2
  /\ pa.alerts[1].Severity = "high"
  /\ pa.alerts[2].Severity = "medium"

\* the checks of GenerateHealthStatus in their order, each with the metric
\* of the alert it answers to; the connectivity check answers to none
CheckOrder ==
  << <<"Database Connectivity", "">>, <<"Connection Pool", "connections_active">>,
     <<"Cache Performance", "cache_hit_ratio">>, <<"CPU Usage", "cpu_usage">>,
     <<"Memory Usage", "memory_usage">> >>

\* C29: the checks of GenerateHealthStatus come in the order connectivity,
\* connection pool, cache, CPU, memory (the connection-pool check being
\* there when the snapshot has connections), each ok or warning; the check
\* of a metric is warning exactly when AnalyzeMetrics, on the same
\* snapshot with the same thresholds, emitted the alert of that metric.
C29_ChecksAgreeWithAlerts ==
  pa.pc = "health" =>
    LET generated == SelectSeq(pa.health.Checks, LAMBDA c : c.Name # "Custom")
        emitted == {pa.alerts[i].Metric : i \in 1..Len(pa.alerts)}
        expected == SelectSeq(CheckOrder,
                      LAMBDA c : c[1] = "Connection Pool" => pa.metrics.ConnectionsTotal > 0)
    IN /\ [i \in 1..Len(generated) |-> generated[i].Name]
            = [i \in 1..Len(expected) |-> expected[i][1]]
       /\ \A i \in 1..Len(generated) :
            /\ generated[i].Status \in {"ok", "warning"}
            /\ generated[i].Status = "warning" <=> expected[i][2] \in emitted
       /\ "connections_active" \in emitted
            => \E i \in 1..Len(generated) :
                 generated[i].Name = "Connection Pool" /\ generated[i].Status = "warning"

C29_Witness ==
  /\ pa.pc = "health"
  /\ Len(pa.health.Checks) = 5
  /\ Statuses(pa.health) = <<"ok", "warning", "ok", "warning", "ok">>
  /\ [i \in 1..Len(pa.alerts) |-> pa.alerts[i].Metric] = <<"connections_active", "cpu_usage">>

ApiReturns(kind) == api.kind = kind /\ api'.kind = "returned"

\* C31: UnregisterCluster of an id without an entry returns NotFound and
\* leaves cc.clusters as it was; of an id with an entry it deletes that
\* entry and no other, and the GetCluster of the id that follows returns
\* NotFound; the GetCluster that follows a RegisterCluster returns the
\* registered entry, whether or not the registry holds a pool for the id.
C31_RegisterUnregister ==
  [][/\ ApiReturns("UnregisterCluster") =>
          IF clusters[api.id] = NoCluster
            THEN ret'.err = "NotFound" /\ clusters' = clusters
            ELSE /\ ret'.err = "nil"
                 /\ clusters' = [clusters EXCEPT ![api.id] = NoCluster]
     /\ (ApiReturns("GetCluster") /\ ret.kind = "UnregisterCluster"
           /\ ret.err = "nil" /\ ret.id = api.id) =>
          ret'.err = "NotFound"
     /\ (ApiReturns("GetCluster") /\ ret.kind = "RegisterCluster" /\ ret.id = api.id) =>
          /\ ret'.err = "nil"
          /\ ret'.cluster \in RegisterInputs
          /\ ret'.cluster = clusters[api.id]]_vars

C31_Witness ==
  /\ ret.kind = "GetCluster" /\ ret.err = "nil" /\ api.kind = "returned"
  /\ ret.cluster \in RegisterInputs
  /\ pools[ret.id] = NoPool
  /\ \E id \in Ids : id # ret.id /\ clusters[id] = NoCluster /\ pools[id] # NoPool

\* the alert lists that another caller could pass for the same snapshot:
\* none, the alerts of AnalyzeMetrics all active, the same all resolved
OtherAlertLists ==
  LET fresh == AnalyzeMetrics(pa.thresholds, pa.metrics, 0)
  IN {<<>>, fresh, [i \in 1..Len(fresh) |-> Resolve(fresh[i])]}

C33_NoUseAfterClose ==
  [][/\ \A p \in Procs : (pc[p] = "hc_ping" /\ pc'[p] # "hc_ping") => loc[p].pool \notin poolsClosed
     /\ (mc.pc = "query" /\ mc' # mc) => mc.pool \notin poolsClosed
     /\ (cc.pc = "hc_ping" /\ cc' # cc) => cc.pool \notin poolsClosed]_vars

\* the severities in their order
SeverityRank(sev) ==
  CASE sev = "info" -> 0 [] sev = "low" -> 1 [] sev = "medium" -> 2
    [] sev = "high" -> 3 [] sev = "critical" -> 4

\* the field of the snapshot that moves the value of a metric
FieldOf(metric) ==
  CASE metric = "connections_active" -> "ConnectionsActive"
    [] metric = "cache_hit_ratio" -> "CacheHitRatio"
    [] metric = "cpu_usage" -> "CPUUsage"
    [] metric = "memory_usage" -> "MemoryUsage"
    [] metric = "replication_lag" -> "ReplicationLag"
    [] metric = "lock_waits" -> "LockWaits"
    [] metric = "deadlock_count" -> "DeadlockCount"
    [] metric = "table_bloat" -> "TableBloat"

\* v is at least as far past the threshold of the metric as w
FurtherPast(metric, v, w) == IF metric = "cache_hit_ratio" THEN v <= w ELSE v >= w

\* the alerts of a metric in a list
AlertsOf(alerts, metric) == SelectSeq(alerts, LAMBDA a : a.Metric = metric)

\* C34: every alert of AnalyzeMetrics is medium, high or critical, whatever
\* the thresholds; and with the same thresholds, a snapshot in which the
\* value of the metric is further past its threshold, all else equal, gets
\* the alert of that metric with a severity that is not lower.
C34_SeverityNeverLowNorDecreasing ==
  pa.pc = "returned" =>
    \A i \in 1..Len(pa.alerts) :
      LET a == pa.alerts[i]
          f == FieldOf(a.Metric)
      IN /\ a.Severity \in {"medium", "high", "critical"}
         /\ \A v \in SnapshotValues[f] :
              FurtherPast(a.Metric, v, pa.metrics[f]) =>
                LET further == AlertsOf(AnalyzeMetrics(pa.thresholds,
                                          [pa.metrics EXCEPT ![f] = v], pa.now), a.Metric)
                IN /\ Len(further) = 1
                   /\ SeverityRank(further[1].Severity) >= SeverityRank(a.Severity)

C34_Witness ==
  /\ pa.pc = "returned"
  /\ pa.thresholds = SteepThresholds
  /\ pa.metrics.CacheHitRatio = 82
  /\ pa.metrics.ConnectionsActive = 85 /\ pa.metrics.ConnectionsTotal = 100
  /\ Len(pa.alerts) >= 3
  /\ pa.alerts[1].Metric = "cache_hit_ratio" /\ pa.alerts[1].Severity = "critical"
  /\ \E i \in 2..Len(pa.alerts) : pa.alerts[i].Severity = "high"

\* C35: for a snapshot with every field zero, AnalyzeMetrics under the
\* default thresholds returns one alert, cache_hit_ratio and critical, and
\* GenerateHealthStatus on that snapshot and that list returns four checks,
\* connectivity ok and cache warning, score 75, status warning, one active
\* alert, one critical alert.
C35_ZeroSnapshot ==
  (pa.thresholds = DefaultThresholds /\ pa.metrics = NewMetrics(1)) =>
    /\ pa.pc \in {"returned", "health"} =>
         /\ Len(pa.alerts) = 1
         /\ pa.alerts[1].Metric = "cache_hit_ratio"
         /\ pa.alerts[1].Severity = "critical"
    /\ (pa.pc = "health" /\ pa.alerts[1].Status = "active" /\ Len(pa.health.Checks) = 4) =>
         /\ [i \in 1..4 |-> <<pa.health.Checks[i].Name, pa.health.Checks[i].Status>>]
              = << <<"Database Connectivity", "ok">>, <<"Cache Performance", "warning">>,
                   <<"CPU Usage", "ok">>, <<"Memory Usage", "ok">> >>
         /\ pa.health.Score = 75
         /\ pa.health.Status = "warning"
         /\ pa.health.ActiveAlerts = 1
         /\ pa.health.CriticalAlerts = 1
    /\ pa.pc = "health" => Len(pa.health.Checks) >= 4

C35_Witness ==
  /\ pa.pc = "health"
  /\ pa.thresholds = DefaultThresholds
  /\ pa.metrics = NewMetrics(1)
  /\ pa.alerts[1].Status = "active"
  /\ Len(pa.health.Checks) = 4
  /\ pa.health.Score = 75
  /\ pa.health.CriticalAlerts = 1

\* ==== the health of a cluster from a collected snapshot: properties ====

C37_FailedAtStartupStaysOut ==
  \A id \in boot.logged :
    /\ pools[id] = NoPool
    /\ \A i \in 1..Len(mc.ids) : mc.ids[i] # id
    /\ \A i \in 1..Len(cc.ids) : cc.ids[i] # id
    /\ ret.kind = "GetAllClusters" => \A i \in 1..Len(ret.ids) : ret.ids[i] # id

\* ==== collectLockMetrics: properties ====

\* the snapshot of the collection under way, or of the one that returned
LockSnapshot == IF mc.pc = "query" THEN mc.metrics ELSE mc.out.metrics

\* C38: in a collection whose lock-wait query failed the deadlock query is
\* not issued, LockWaits and DeadlockCount are zero and the lock
\* sub-collection has reported its failure; in one whose lock-wait query
\* succeeded and whose deadlock query failed, LockWaits is the sampled
\* value, DeadlockCount is zero and the lock sub-collection has reported
\* nothing.
C38_LockQueriesAsymmetric ==
  (mc.pc = "query" \/ (mc.out.kind = "CollectClusterMetrics" /\ mc.out.err = "nil")) =>
    LET Issued == {mc.issued[i] : i \in 1..Len(mc.issued)} IN
    /\ "lock_waits" \in mc.failedQ =>
         /\ "deadlocks" \notin Issued
         /\ LockSnapshot.LockWaits = 0 /\ LockSnapshot.DeadlockCount = 0
         /\ "lock" \in mc.warned
    /\ ("lock_waits" \in Issued \ mc.failedQ /\ "deadlocks" \in mc.failedQ) =>
         /\ LockSnapshot.LockWaits = Row("lock_waits")[1]
         /\ LockSnapshot.DeadlockCount = 0
         /\ "lock" \notin mc.warned
    /\ ("lock_waits" \in Issued \ mc.failedQ /\ mc.pc # "query") => "deadlocks" \in Issued

C38_Witness ==
  /\ mc.pc = "idle" /\ mc.out.kind = "CollectClusterMetrics" /\ mc.out.err = "nil"
  /\ mc.failedQ = {"deadlocks"}
  /\ mc.out.metrics.LockWaits = Row("lock_waits")[1] /\ Row("lock_waits")[1] > 0
  /\ mc.out.metrics.DeadlockCount = 0
  /\ "lock" \notin mc.warned
  /\ Len(mc.issued) = Len(Queries)

====
